---- MODULE Spec2Model ----
(***************************************************************************)
(* A model of tst/stgpipe/stgpipe.c (WinSpd): the storage unit test client *)
(* that opens a unit over a named pipe or as a raw volume, issues batches  *)
(* of Read/Write/Flush/Unmap transacts and verifies the data read back.    *)
(*                                                                         *)
(* Integer widths.  TLC's integers are 32-bit, so the C types are modelled *)
(* with fewer bits: UINT64 values are kept modulo 2^AddrBits and the       *)
(* 32-bit types (UINT32, ULONG, DWORD) modulo 2^CountBits, with            *)
(* AddrBits > CountBits.  Every arithmetic operation is the one of the     *)
(* source, reduced to the type's width.  Bytes (UINT8) keep 8 bits, and    *)
(* storage sizes (8-byte words, 16-byte unmap descriptors) are the real    *)
(* ones.                                                                   *)
(***************************************************************************)
EXTENDS Integers, Sequences, FiniteSets, TLC

AddrBits == 19
CountBits == 17

UINT64_MOD == 2 ^ AddrBits
UINT32_MOD == 2 ^ CountBits
UINT64_MAX == UINT64_MOD - 1
UINT32_MAX == UINT32_MOD - 1

Min(a, b) == IF a < b THEN a ELSE b
Max(a, b) == IF a < b THEN b ELSE a

(* ---------------- unsigned machine arithmetic ---------------- *)

RECURSIVE BitOr(_, _)
BitOr(a, b) ==
    IF a = 0 THEN b
    ELSE IF b = 0 THEN a
    ELSE (IF a % 2 = 1 \/ b % 2 = 1 THEN 1 ELSE 0) + 2 * BitOr(a \div 2, b \div 2)

RECURSIVE BitXor(_, _)
BitXor(a, b) ==
    IF a = 0 THEN b
    ELSE IF b = 0 THEN a
    ELSE ((a + b) % 2) + 2 * BitXor(a \div 2, b \div 2)

RECURSIVE ShiftRight(_, _)
ShiftRight(a, n) == IF n = 0 \/ a = 0 THEN a ELSE ShiftRight(a \div 2, n - 1)

(* a * b modulo m, without leaving TLC's integer range (a, m <= 2^22) *)
RECURSIVE MulMod(_, _, _)
MulMod(a, b, m) ==
    IF b = 0 THEN 0
    ELSE ((a % m) * (b % 256) + 256 * MulMod(a, b \div 256, m)) % m

(* a << n modulo m *)
RECURSIVE ShiftLeftMod(_, _, _)
ShiftLeftMod(a, n, m) ==
    IF n = 0 \/ a % m = 0 THEN a % m ELSE ShiftLeftMod((2 * (a % m)) % m, n - 1, m)

(* the n low bytes of v, little-endian (x86 memory order) *)
ToBytesLE(v, n) == [k \in 1..n |-> ShiftRight(v, 8 * (k - 1)) % 256]

(* the value of little-endian bytes, truncated to a type of modulus m *)
RECURSIVE FromBytesLE(_, _)
FromBytesLE(bytes, m) ==
    IF bytes = << >> THEN 0
    ELSE (bytes[1] + 256 * FromBytesLE(Tail(bytes), m)) % m

(* ---------------- program constants ---------------- *)

SpdIoctlTransactReservedKind == 0
SpdIoctlTransactReadKind == 1
SpdIoctlTransactWriteKind == 2
SpdIoctlTransactFlushKind == 3
SpdIoctlTransactUnmapKind == 4

SCSISTAT_GOOD == 0
(* a status that is not good, as a service may send it (CHECK CONDITION, 2) *)
SCSISTAT_CHECK_CONDITION == SCSISTAT_GOOD + 2

ERROR_SUCCESS == 0
ERROR_INVALID_PARAMETER == 87
ERROR_PIPE_BUSY == 231
ERROR_IO_DEVICE == 1117
ERROR_NO_SYSTEM_RESOURCES == 1450

INVALID_HANDLE_VALUE == -1

(* sizeof(SPD_IOCTL_UNMAP_DESCRIPTOR): UINT64 BlockAddress, UINT32 BlockCount, UINT32 Reserved *)
SizeofUnmapDescriptor == 16
(* sizeof(SPD_IOCTL_STORAGE_UNIT_PARAMS) as the handshake delivers it: UINT64 + UINT32 + UINT32 *)
SizeofStorageUnitParams == 16
(* sizeof(TRANSACT_MSG): the header of a request or response message *)
SizeofTransactMsg == 32
(* sizeof(UINT64): the stride of the PUINT64 Buffer of FillOrTest *)
SizeofWord == 8
(* the MaxTransferLength StgOpenRaw substitutes for 0 *)
DefaultMaxTransferLength == 64 * 1024

(* a byte of memory that was never written (MemAlloc'ed, or a local left unset) *)
Uninit == -1

(* ---------------- handle tagging (macros, lines 56-59) ---------------- *)

IsPipeHandle(Handle) == Handle % 2 = 1
GetPipeHandle(Handle) == Handle - (Handle % 2)
SetPipeHandle(Handle) == BitOr(Handle, 1)
GetRawHandle(Handle) == Handle

(* ---------------- the data buffer ---------------- *)
(* A buffer is the sequence of its bytes up to the last one ever written;   *)
(* the bytes after it are Uninit.  Offsets are 0-based as in the source.    *)

BufGet(buf, k) == IF k < Len(buf) THEN buf[k + 1] ELSE Uninit

(* memcpy(buf + off, bytes, Len(bytes)) *)
BufWrite(buf, off, bytes) ==
    IF bytes = << >> THEN buf
    ELSE [k \in 1..Max(Len(buf), off + Len(bytes)) |->
             IF k - 1 >= off /\ k - 1 < off + Len(bytes)
             THEN bytes[k - off] ELSE BufGet(buf, k - 1)]

(* the n bytes of buf from offset off *)
BufRead(buf, off, n) == [k \in 1..n |-> BufGet(buf, off + k - 1)]

Zeros(n) == [k \in 1..n |-> 0]

(* ---------------- content oracle ---------------- *)

HashShift == 33
(* 0xff51afd7ed558ccd and 0xc4ceb9fe1a85ec53: their low 30 bits, all that a *)
(* product modulo 2^AddrBits depends on                                     *)
HashMul1 == 760581325
HashMul2 == 444984403

(* lines 460-464: k ^= k >> 33, k *= HashMul1, k ^= k >> 33, k *= HashMul2, *)
(* k ^= k >> 33; each step is a function of the value of k before it        *)
HashMix64(k) ==
    LET XorShift[x \in Nat] == BitXor(x, ShiftRight(x, HashShift))
        Mul1[x \in Nat] == MulMod(x, HashMul1 % UINT64_MOD, UINT64_MOD)
        Mul2[x \in Nat] == MulMod(x, HashMul2 % UINT64_MOD, UINT64_MOD)
    IN  XorShift[Mul2[XorShift[Mul1[XorShift[k]]]]]

(* HashWords with HashMix64(BlockAddress + I) for block I *)
HashWords_NoPlusOne(BlockAddress, BlockCount) ==
    [i \in 0..(BlockCount - 1) |->
        ToBytesLE(HashMix64((BlockAddress + i) % UINT64_MOD), SizeofWord)]

(* the 8 bytes of HashAddress for each block i < BlockCount of the range *)
HashWords(BlockAddress, BlockCount) ==
    [i \in 0..(BlockCount - 1) |->
        ToBytesLE(HashMix64((BlockAddress + i + 1) % UINT64_MOD), SizeofWord)]

(* offset k lies in an 8-byte word that the loops of FillOrTest visit *)
InWords(BlockLength, BlockCount, k) ==
    /\ BlockLength >= SizeofWord
    /\ k \div BlockLength < BlockCount
    /\ k % BlockLength < SizeofWord * (BlockLength \div SizeofWord)

(* one past the last offset the loops of FillOrTest touch *)
FillOrTestExtent(BlockLength, BlockCount) ==
    IF BlockCount = 0 \/ BlockLength < SizeofWord THEN 0
    ELSE (BlockCount - 1) * BlockLength + SizeofWord * (BlockLength \div SizeofWord)

(* FillOrTest: [Buffer |-> the buffer afterwards, Result |-> the int returned] *)
FillOrTest(DataBuffer, BlockLength, BlockAddress, BlockCount, FillOrTestOpKind) ==
    LET n == FillOrTestExtent(BlockLength, BlockCount)
        h == HashWords(BlockAddress, BlockCount)
        HashAddress(k) == h[k \div BlockLength][((k % BlockLength) % SizeofWord) + 1]
    IN  IF FillOrTestOpKind = SpdIoctlTransactReservedKind
        THEN [Buffer |-> [k \in 1..Max(Len(DataBuffer), n) |->
                            IF InWords(BlockLength, BlockCount, k - 1)
                            THEN HashAddress(k - 1)
                            ELSE BufGet(DataBuffer, k - 1)],
              Result |-> 1]
        ELSE IF FillOrTestOpKind = SpdIoctlTransactWriteKind
        THEN [Buffer |-> DataBuffer,
              Result |-> IF \A k \in 0..(n - 1) :
                                InWords(BlockLength, BlockCount, k)
                                    => BufGet(DataBuffer, k) = HashAddress(k)
                         THEN 1 ELSE 0]
        ELSE IF FillOrTestOpKind = SpdIoctlTransactUnmapKind
        THEN [Buffer |-> DataBuffer,
              Result |-> IF \A k \in 0..(n - 1) :
                                InWords(BlockLength, BlockCount, k)
                                    => BufGet(DataBuffer, k) = 0
                         THEN 1 ELSE 0]
        ELSE [Buffer |-> DataBuffer, Result |-> 1]

(* ---------------- pseudo-random generator ---------------- *)

LcgMultiplier == 214013
LcgIncrement == 2531011

(* GenRandomBytes: [Seed |-> *PSeed afterwards, Bytes |-> the Size bytes stored] *)
RECURSIVE GenRandomLoop(_, _)
GenRandomLoop(Seed, Size) ==
    IF Size = 0 THEN [Seed |-> Seed, Bytes |-> << >>]
    ELSE LET s == (MulMod(Seed, LcgMultiplier, UINT32_MOD) + LcgIncrement) % UINT32_MOD
             rest == GenRandomLoop(s, Size - 1)
         IN  [Seed |-> rest.Seed,
              Bytes |-> <<ShiftRight(s, 16) % 256>> \o rest.Bytes]

GenRandomBytes(PSeed, Size) == GenRandomLoop(IF PSeed # 0 THEN PSeed ELSE 1, Size)

(* ---------------- inputs and environment ---------------- *)

MaxOpCount == 3

PipeNameArg == <<"\\", "\\", ".", "\\", "p", "i", "p", "e", "\\", "u", "\\", "0">>
RawNameArg == <<"\\", "\\", ".", "\\", "X", ":">>
Names == {PipeNameArg, RawNameArg}

(* Name[i] of the NUL-terminated string Name *)
NameChar(Name, i) == IF i < Len(Name) THEN Name[i + 1] ELSE "NUL"

(* the test of StgOpen for the prefix \\.\pipe\ ; && stops at the first mismatch *)
IsPipeName(Name) ==
    LET Prefix == <<"\\", "\\", ".", "\\", "p", "i", "p", "e", "\\">>
    IN  \A i \in 0..(Len(Prefix) - 1) : NameChar(Name, i) = Prefix[i + 1]

Params(bc, bl, mtl) == [BlockCount |-> bc, BlockLength |-> bl, MaxTransferLength |-> mtl]

(* what a pipe service sends as its handshake message: Bytes of a Params *)
PipeUnits ==
    {[Bytes |-> SizeofStorageUnitParams, Params |-> g] :
        g \in {Params(5, 16, 32), Params(UINT64_MAX, 16, 48), Params(3, 24, 24),
               Params(0, 16, 32), Params(5, 8, 32), Params(5, 0, 32),
               Params(5, 16, 0), Params(5, 16, 24)}}
    \cup {[Bytes |-> SizeofStorageUnitParams - 4, Params |-> Params(5, 16, 32)]}

(* what a raw unit answers to READ CAPACITY(16) and to the Block Limits inquiry: *)
(* the big-endian bytes of the last block address, of the block length and of   *)
(* the maximum transfer length                                                  *)
RawUnit(lba, bpb, mtl) ==
    [LogicalBlockAddress |-> lba, BytesPerBlock |-> bpb, MaximumTransferLength |-> mtl]
RawUnits ==
    {RawUnit(<<0, 0, 0, 0, 0, 0, 0, 4>>, <<0, 0, 0, 16>>, <<0, 0, 0, 32>>),
     RawUnit(<<0, 0, 0, 0, 0, 0, 0, 5>>, <<0, 0, 0, 16>>, <<0, 0, 0, 0>>),
     RawUnit(<<255, 255, 255, 255, 255, 255, 255, 255>>, <<0, 0, 0, 16>>, <<0, 0, 0, 32>>),
     RawUnit(<<0, 0, 0, 0, 0, 0, 0, 4>>, <<0, 0, 0, 8>>, <<0, 0, 0, 32>>),
     RawUnit(<<0, 0, 0, 0, 0, 0, 0, 4>>, <<0, 0, 0, 16>>, <<0, 0, 0, 2>>),
     RawUnit(<<0, 0, 0, 0, 0, 0, 0, 4>>, <<0, 0, 0, 0>>, <<0, 0, 0, 0>>)}

Units(Name) == IF IsPipeName(Name) THEN PipeUnits ELSE RawUnits

(* the command line: OpCount, the kind letters, Address (or * = -1), Count (or * = -1), *)
(* and the seed (of -s, or the tick count).  The seed is read only when the address or *)
(* the count is randomized, so the other command lines are given the one seed.          *)
OpCounts == {0, MaxOpCount}
OpSets == {<< >>, <<"w", "F", "r">>, <<"U", "R", "x">>, <<"R", "W">>}
(* kind strings of 33 characters, one more than OpKinds has elements (line 524): *)
(* letters throughout; one letter at the 32nd and one at the 33rd place; one     *)
(* letter at the 33rd place only                                                 *)
LongOpSetLength == 32 + 1
OpSetFull == [i \in 1..LongOpSetLength |-> IF i % 2 = 1 THEN "r" ELSE "W"]
OpSetLate ==
    [i \in 1..LongOpSetLength |->
        IF i = LongOpSetLength - 1 THEN "U" ELSE IF i = LongOpSetLength THEN "W" ELSE "?"]
OpSetBeyond == [i \in 1..LongOpSetLength |-> IF i = LongOpSetLength THEN "F" ELSE "?"]
LongOpSets == {OpSetFull, OpSetLate, OpSetBeyond}
AddressArgs == {0, 4, UINT64_MAX - 1, UINT64_MAX}
CountArgs == {0, 2, UINT32_MAX}
DefaultSeed == 1
SeedArgs == {0, 7}

Args ==
    {a \in [PipeName : Names, OpCount : OpCounts, OpSet : OpSets \cup LongOpSets,
            BlockAddress : AddressArgs, BlockCount : CountArgs,
            RandomSeed : SeedArgs \cup {DefaultSeed}] :
        a.RandomSeed = DefaultSeed
            <=> (a.BlockAddress # UINT64_MAX /\ a.BlockCount # UINT32_MAX)}

(* the command line that a unit which StgOpen refuses is tried with *)
PlainArgs(Name) ==
    [PipeName |-> Name, OpCount |-> MaxOpCount, OpSet |-> << >>,
     BlockAddress |-> 0, BlockCount |-> 2, RandomSeed |-> DefaultSeed]

OsHandleValues == {4}
ThreadIds == {1}
(* the error codes that GetLastError may give besides those the source names: *)
(* one stands for all (5, ERROR_ACCESS_DENIED)                               *)
OsErrors == {5}

NoReq == [Hint |-> 0, Kind |-> SpdIoctlTransactReservedKind,
          BlockAddress |-> 0, BlockCount |-> 0, Count |-> 0]
NoRsp == [Hint |-> 0, Kind |-> SpdIoctlTransactReservedKind, ScsiStatus |-> SCSISTAT_GOOD]
NoMsg == [Bytes |-> 0, Hdr |-> NoRsp, Payload |-> << >>]
NoIo == [Op |-> "none", Error |-> ERROR_SUCCESS, Msg |-> NoMsg]

(* ---------------- state ---------------- *)

VARIABLES
    pc,                 \* where run (or the function it has called) stands
    args,               \* the arguments of run, as wmain passes them
    unit,               \* the storage unit behind the name: what it replies when opened
                        \* (Reply), the blocks it holds (Store), and whether it and the
                        \* OS calls made on the way to it may fail (Faulty)
    osOpen,             \* the handles the OS has open for this process
    hFile,              \* Handle of StgOpenPipe / StgOpenRaw
    Handle,             \* Handle of run
    StorageUnitParams,
    DataBuffer, DataBufferSize,
    OpCount, OpKinds, OpKindCount,
    BlockAddress, BlockCount, RandomSeed,
    RandomAddress, RandomCount,
    MaxBlockCount, OpBlockCount, TestOpKind, ThreadId,
    I, J, Req, Rsp, Error,
    Msg,                \* Msg of StgTransactPipe: the message buffer
    pending,            \* the overlapped I/Os issued and not yet completed
    completion,         \* the completed I/O that WaitOverlappedResult has yet to collect
    log,                \* the requests handed to StgTransact, in order, each with the
                        \* BlockCount of its batch (BatchCount)
    hist                \* history: the calls made (connects and the errors they gave,
                        \* waits on the pipe and their timeouts, handshake reads, closes),
                        \* the last message received over the pipe, and, when run is
                        \* started a second time, the log of the first run

(* the errors an OS call may end with, besides succeeding *)
Failures == IF unit.Faulty THEN OsErrors ELSE {}

vars == <<pc, args, unit, osOpen, hFile, Handle, StorageUnitParams,
          DataBuffer, DataBufferSize, OpCount, OpKinds, OpKindCount,
          BlockAddress, BlockCount, RandomSeed, MaxBlockCount, OpBlockCount,
          TestOpKind, ThreadId, I, J, Req, Rsp, Error, RandomAddress, RandomCount,
          Msg, pending, completion, log, hist>>

runLocals == <<DataBuffer, DataBufferSize, OpCount, OpKinds, OpKindCount,
               BlockAddress, BlockCount, RandomSeed, MaxBlockCount, OpBlockCount,
               TestOpKind, ThreadId, I, J, Req, Rsp, RandomAddress, RandomCount>>
ioVars == <<pending, completion>>

(* run is entered: the parameters hold the arguments, the locals are unset *)
InitRun(a, u, f) ==
    /\ pc = "StgOpen"
    /\ args = a
    /\ unit = [Reply |-> u, Store |-> << >>, Faulty |-> f]
    /\ osOpen = {}
    /\ hFile = INVALID_HANDLE_VALUE
    /\ Handle = INVALID_HANDLE_VALUE
    /\ StorageUnitParams = Params(0, 0, 0)
    /\ DataBuffer = << >>
    /\ DataBufferSize = 0
    /\ OpCount = a.OpCount
    /\ OpKinds = << >>
    /\ OpKindCount = 0
    /\ BlockAddress = a.BlockAddress
    /\ BlockCount = a.BlockCount
    /\ RandomSeed = a.RandomSeed
    /\ MaxBlockCount = 0
    /\ OpBlockCount = 0
    /\ TestOpKind = SpdIoctlTransactReservedKind
    /\ ThreadId = 0
    /\ I = 0
    /\ J = 0
    /\ Req = NoReq
    /\ Rsp = NoRsp
    /\ Error = ERROR_SUCCESS
    /\ RandomAddress = FALSE
    /\ RandomCount = FALSE
    /\ Msg = NoMsg
    /\ pending = {}
    /\ completion = NoIo
    /\ log = << >>
    /\ hist = [Connects |-> 0, HandshakeReads |-> 0, Closes |-> 0, CloseFailed |-> FALSE,
               Received |-> NoMsg, Run |-> 1, PrevLog |-> << >>,
               ConnectErrors |-> << >>, Waits |-> << >>]

(* ---------------- StgOpen, StgOpenPipe ---------------- *)

(* an exit: of StgOpenPipe and StgOpenRaw that leaves the handle open on error *)
OpenReturns_NoClose(h, err) ==
    /\ osOpen' = osOpen
    /\ hFile' = h
    /\ Error' = err
    /\ pc' = "RunAfterOpen"

(* the exit: label of StgOpenPipe and StgOpenRaw, and the return to run *)
OpenReturns(h, err) ==
    /\ osOpen' = (IF err # ERROR_SUCCESS /\ h # INVALID_HANDLE_VALUE
                  THEN osOpen \ {h} ELSE osOpen)
    /\ hFile' = h
    /\ Error' = err
    /\ pc' = "RunAfterOpen"

(* line 532: the Timeout that run passes to StgOpen *)
OpenTimeout == 3000

(* a test of the first error that sends every failure to the second attempt *)
ConnectRetried_Always(err) == TRUE

(* line 97: the first CreateFileW failed with an error that leads to the wait *)
ConnectRetried(err) == ERROR_PIPE_BUSY = err

(* lines 87-98: the first CreateFileW *)
StgOpenPipe_Connect ==
    /\ pc = "StgOpen"
    /\ IsPipeName(args.PipeName)
    /\ \/ \E h \in OsHandleValues \ osOpen :
            /\ osOpen' = osOpen \cup {h}
            /\ hFile' = h
            /\ pc' = "PipeSetMode"
            /\ hist' = [hist EXCEPT !.Connects = @ + 1]
            /\ UNCHANGED Error
       \/ \E e \in Failures \cup {ERROR_PIPE_BUSY} :
            /\ hist' = [hist EXCEPT !.Connects = @ + 1,
                                    !.ConnectErrors = Append(@, e)]
            /\ IF ConnectRetried(e)
               THEN /\ Error' = e
                    /\ pc' = "PipeWait"
                    /\ UNCHANGED <<osOpen, hFile>>
               ELSE OpenReturns(INVALID_HANDLE_VALUE, e)
    /\ UNCHANGED <<args, unit, Handle, StorageUnitParams, runLocals, Msg, ioVars, log>>

(* lines 100-111: WaitNamedPipeW, then the second CreateFileW *)
StgOpenPipe_Retry ==
    /\ pc = "PipeWait"
    /\ \/ \E h \in OsHandleValues \ osOpen :
            /\ osOpen' = osOpen \cup {h}
            /\ hFile' = h
            /\ pc' = "PipeSetMode"
            /\ hist' = [hist EXCEPT !.Connects = @ + 1,
                                    !.Waits = Append(@, OpenTimeout)]
            /\ UNCHANGED Error
       \/ \E e \in (IF unit.Faulty THEN OsErrors \cup {ERROR_PIPE_BUSY} ELSE {}) :
            /\ hist' = [hist EXCEPT !.Connects = @ + 1,
                                    !.Waits = Append(@, OpenTimeout),
                                    !.ConnectErrors = Append(@, e)]
            /\ OpenReturns(INVALID_HANDLE_VALUE, e)
    /\ UNCHANGED <<args, unit, Handle, StorageUnitParams, runLocals, Msg, ioVars, log>>

(* lines 114-119: SetNamedPipeHandleState *)
StgOpenPipe_SetMode ==
    /\ pc = "PipeSetMode"
    /\ \/ /\ pc' = "PipeHandshake"
          /\ UNCHANGED <<osOpen, hFile, Error>>
       \/ \E e \in Failures : OpenReturns(hFile, e)
    /\ UNCHANGED <<args, unit, Handle, StorageUnitParams, runLocals, Msg, ioVars, log, hist>>

(* HandshakeRefused without the test that MaxTransferLength is a multiple of BlockLength *)
HandshakeRefused_NoMultipleTest(BytesTransferred, P) ==
    \/ SizeofStorageUnitParams > BytesTransferred
    \/ 0 = P.BlockCount
    \/ SizeofUnmapDescriptor > P.BlockLength
    \/ 0 = P.MaxTransferLength

(* lines 127-131: the handshake message is refused *)
HandshakeRefused(BytesTransferred, P) ==
    \/ SizeofStorageUnitParams > BytesTransferred
    \/ 0 = P.BlockCount
    \/ SizeofUnmapDescriptor > P.BlockLength
    \/ 0 = P.MaxTransferLength
    \/ 0 # P.MaxTransferLength % P.BlockLength

(* lines 122-148: the handshake ReadFile and its validation *)
StgOpenPipe_Handshake ==
    /\ pc = "PipeHandshake"
    /\ hist' = [hist EXCEPT !.HandshakeReads = @ + 1]
    /\ \/ \E e \in Failures :
            /\ OpenReturns(hFile, e)
            /\ UNCHANGED <<Handle, StorageUnitParams>>
       \/ /\ StorageUnitParams' = unit.Reply.Params
          /\ IF HandshakeRefused(unit.Reply.Bytes, unit.Reply.Params)
             THEN /\ OpenReturns(hFile, ERROR_IO_DEVICE)
                  /\ UNCHANGED Handle
             ELSE /\ Handle' = SetPipeHandle(hFile)
                  /\ OpenReturns(hFile, ERROR_SUCCESS)
    /\ UNCHANGED <<args, unit, runLocals, Msg, ioVars, log>>

(* ---------------- StgOpenRaw ---------------- *)

(* lines 264-276: CreateFileW on the volume *)
StgOpenRaw_Create ==
    /\ pc = "StgOpen"
    /\ ~IsPipeName(args.PipeName)
    /\ hist' = [hist EXCEPT !.Connects = @ + 1]
    /\ StorageUnitParams' = Params(0, 0, 0)
    /\ \/ \E h \in OsHandleValues \ osOpen :
            /\ osOpen' = osOpen \cup {h}
            /\ hFile' = h
            /\ pc' = "RawReadCapacity"
            /\ UNCHANGED Error
       \/ \E e \in Failures : OpenReturns(INVALID_HANDLE_VALUE, e)
    /\ UNCHANGED <<args, unit, Handle, runLocals, Msg, ioVars, log>>

(* lines 293-301: 1 + b0 << 56 | b1 << 48 | ... | b7, as C groups it *)
RawBlockCount(b) ==
    BitOr(BitOr(BitOr(BitOr(BitOr(BitOr(BitOr(
        (1 + ShiftLeftMod(b[1], 56, UINT64_MOD)) % UINT64_MOD,
        ShiftLeftMod(b[2], 48, UINT64_MOD)),
        ShiftLeftMod(b[3], 40, UINT64_MOD)),
        ShiftLeftMod(b[4], 32, UINT64_MOD)),
        ShiftLeftMod(b[5], 24, UINT64_MOD)),
        ShiftLeftMod(b[6], 16, UINT64_MOD)),
        ShiftLeftMod(b[7], 8, UINT64_MOD)),
        b[8])

(* lines 302-306 *)
RawBlockLength(b) ==
    BitOr(BitOr(BitOr(
        ShiftLeftMod(b[1], 24, UINT32_MOD),
        ShiftLeftMod(b[2], 16, UINT32_MOD)),
        ShiftLeftMod(b[3], 8, UINT32_MOD)),
        b[4])

(* lines 324-330: BlockLength * (b0 << 24) | b1 << 16 | b2 << 8 | b3, as C groups it *)
RawMaxTransferLength(BlockLength, b) ==
    LET v == BitOr(BitOr(BitOr(
                 MulMod(BlockLength, ShiftLeftMod(b[1], 24, UINT32_MOD), UINT32_MOD),
                 ShiftLeftMod(b[2], 16, UINT32_MOD)),
                 ShiftLeftMod(b[3], 8, UINT32_MOD)),
                 b[4])
    IN  IF 0 = v THEN DefaultMaxTransferLength % UINT32_MOD ELSE v

(* lines 332-333: the geometry is refused *)
RawGeometryRefused(P) == 0 = P.BlockCount \/ 0 = P.BlockLength

(* lines 278-306: READ CAPACITY(16) *)
StgOpenRaw_ReadCapacity ==
    /\ pc = "RawReadCapacity"
    /\ \/ \E e \in (IF unit.Faulty THEN OsErrors \cup {ERROR_IO_DEVICE} ELSE {}) :
            /\ OpenReturns(hFile, e)
            /\ UNCHANGED StorageUnitParams
       \/ /\ StorageUnitParams' =
                 Params(RawBlockCount(unit.Reply.LogicalBlockAddress),
                        RawBlockLength(unit.Reply.BytesPerBlock), 0)
          /\ pc' = "RawBlockLimits"
          /\ UNCHANGED <<osOpen, hFile, Error>>
    /\ UNCHANGED <<args, unit, Handle, runLocals, Msg, ioVars, log, hist>>

(* lines 308-350: the Block Limits inquiry, and the validation *)
StgOpenRaw_BlockLimits ==
    /\ pc = "RawBlockLimits"
    /\ \/ \E e \in (IF unit.Faulty THEN OsErrors \cup {ERROR_IO_DEVICE} ELSE {}) :
            /\ OpenReturns(hFile, e)
            /\ UNCHANGED <<Handle, StorageUnitParams>>
       \/ LET P == [StorageUnitParams EXCEPT !.MaxTransferLength =
                        RawMaxTransferLength(StorageUnitParams.BlockLength,
                                             unit.Reply.MaximumTransferLength)]
          IN  /\ StorageUnitParams' = P
              /\ IF RawGeometryRefused(P)
                 THEN /\ OpenReturns(hFile, ERROR_IO_DEVICE)
                      /\ UNCHANGED Handle
                 ELSE /\ Handle' = hFile
                      /\ OpenReturns(hFile, ERROR_SUCCESS)
    /\ UNCHANGED <<args, unit, runLocals, Msg, ioVars, log, hist>>

(* ---------------- run: setup ---------------- *)

OpKindsSize == 32

(* the switch of lines 552-566; SpdIoctlTransactReservedKind stands for "no case" *)
KindOfLetter(c) ==
    IF c \in {"R", "r"} THEN SpdIoctlTransactReadKind
    ELSE IF c \in {"W", "w"} THEN SpdIoctlTransactWriteKind
    ELSE IF c \in {"F", "f"} THEN SpdIoctlTransactFlushKind
    ELSE IF c \in {"U", "u"} THEN SpdIoctlTransactUnmapKind
    ELSE SpdIoctlTransactReservedKind

(* the loop without the bound of OpKinds: it runs to the end of the string *)
RECURSIVE ParseLoop_NoLimit(_, _, _)
ParseLoop_NoLimit(OpSet, i, kinds) ==
    IF NameChar(OpSet, i) = "NUL" THEN kinds
    ELSE ParseLoop_NoLimit(OpSet, i + 1,
                           IF KindOfLetter(NameChar(OpSet, i)) # SpdIoctlTransactReservedKind
                           THEN Append(kinds, KindOfLetter(NameChar(OpSet, i)))
                           ELSE kinds)

(* the for loop of lines 551-566, from index i on, appending to kinds *)
RECURSIVE ParseLoop(_, _, _)
ParseLoop(OpSet, i, kinds) ==
    IF ~(OpKindsSize > i /\ NameChar(OpSet, i) # "NUL") THEN kinds
    ELSE ParseLoop(OpSet, i + 1,
                   IF KindOfLetter(NameChar(OpSet, i)) # SpdIoctlTransactReservedKind
                   THEN Append(kinds, KindOfLetter(NameChar(OpSet, i)))
                   ELSE kinds)

(* lines 550-571: the kind list of an OpSet *)
ParseOpSet(OpSet) ==
    LET kinds == ParseLoop(OpSet, 0, << >>)
    IN  IF 0 = Len(kinds)
        THEN <<SpdIoctlTransactWriteKind, SpdIoctlTransactReadKind>>
        ELSE kinds

(* the count of operations as it was given *)
EffectiveOpCount_AsGiven(Count) == Count

(* lines 547-548: a count of 0 operations stands for 1 *)
EffectiveOpCount(Count) == IF 0 = Count THEN 1 ELSE Count

(* lines 533-576: after StgOpen; the buffer, the kind list, the loop's constants *)
RunAfterOpen ==
    /\ pc = "RunAfterOpen"
    /\ IF ERROR_SUCCESS # Error
       THEN /\ pc' = "RunExit"
            /\ UNCHANGED <<Error, runLocals>>
       ELSE \/ /\ unit.Faulty
               /\ Error' = ERROR_NO_SYSTEM_RESOURCES
               /\ pc' = "RunExit"
               /\ UNCHANGED runLocals
            \/ /\ DataBufferSize' = StorageUnitParams.MaxTransferLength
               /\ DataBuffer' = << >>
               /\ OpCount' = EffectiveOpCount(OpCount)
               /\ OpKinds' = ParseOpSet(args.OpSet)
               /\ OpKindCount' = Len(ParseOpSet(args.OpSet))
               /\ RandomAddress' = (UINT64_MAX = BlockAddress)
               /\ RandomCount' = (UINT32_MAX = BlockCount)
               /\ MaxBlockCount' =
                      StorageUnitParams.MaxTransferLength \div StorageUnitParams.BlockLength
               /\ \E t \in ThreadIds : ThreadId' = t
               /\ I' = 0
               /\ J' = 0
               /\ pc' = "Loop"
               /\ UNCHANGED <<Error, BlockAddress, BlockCount, RandomSeed, OpBlockCount,
                              TestOpKind, Req, Rsp>>
    /\ UNCHANGED <<args, unit, osOpen, hFile, Handle, StorageUnitParams, Msg, ioVars,
                   log, hist>>

(* ---------------- run: the workload generator ---------------- *)

(* lines 598-599: the count of the operations of a batch *)
EffectiveCount(Address, Count, UnitBlockCount) ==
    IF (Address + Count) % UINT64_MOD <= UnitBlockCount
    THEN Count
    ELSE (UnitBlockCount - Address) % UINT32_MOD

(* BatchAddress moved by the first byte that the last operation left in DataBuffer *)
BatchAddress_FromData(Address, Count, Seed, i, UnitBlockCount, Random) ==
    LET g == GenRandomBytes(Seed, 8)
        a == IF Random THEN FromBytesLE(g.Bytes, UINT64_MOD)
             ELSE IF 0 # i THEN (Address + Count) % UINT64_MOD
             ELSE Address
        d == IF BufGet(DataBuffer, 0) > 0 THEN 1 ELSE 0
    IN  [BlockAddress |-> (a + d) % UnitBlockCount,
         RandomSeed |-> IF Random THEN g.Seed ELSE Seed]

(* lines 582-586: the address of a batch *)
BatchAddress(Address, Count, Seed, i, UnitBlockCount, Random) ==
    LET g == GenRandomBytes(Seed, 8)
        a == IF Random THEN FromBytesLE(g.Bytes, UINT64_MOD)
             ELSE IF 0 # i THEN (Address + Count) % UINT64_MOD
             ELSE Address
    IN  [BlockAddress |-> a % UnitBlockCount,
         RandomSeed |-> IF Random THEN g.Seed ELSE Seed]

(* BatchCount without the clamp of a caller-given count to MaxCount *)
BatchCount_NoClamp(Count, Seed, MaxCount, Random) ==
    LET g == GenRandomBytes(Seed, 4)
        c == IF Random THEN FromBytesLE(g.Bytes, UINT32_MOD) % MaxCount ELSE Count
    IN  [BlockCount |-> IF c = 0 THEN 1 ELSE c,
         RandomSeed |-> IF Random THEN g.Seed ELSE Seed]

(* lines 588-596: the count of a batch; MaxCount is not 0 when Random *)
BatchCount(Count, Seed, MaxCount, Random) ==
    LET g == GenRandomBytes(Seed, 4)
        c == IF Random THEN FromBytesLE(g.Bytes, UINT32_MOD) % MaxCount
             ELSE IF Count > MaxCount THEN MaxCount
             ELSE Count
    IN  [BlockCount |-> IF c = 0 THEN 1 ELSE c,
         RandomSeed |-> IF Random THEN g.Seed ELSE Seed]

(* the width of the ULONG I, which the thread id is shifted past (32 in the source) *)
HintShift == CountBits

(* a Hint that is the thread id alone *)
RequestHint_ThreadOnly(Thread, i) == ShiftLeftMod(Thread, HintShift, UINT64_MOD)

(* line 607: ((UINT64)ThreadId << 32) | I *)
RequestHint(Thread, i) == BitOr(ShiftLeftMod(Thread, HintShift, UINT64_MOD), i)

(* lines 607-634: the request of operation i *)
BuildReq(Kind, i, Address, Count) ==
    [Hint |-> RequestHint(ThreadId, i),
     Kind |-> Kind,
     BlockAddress |-> IF Kind = SpdIoctlTransactUnmapKind THEN 0 ELSE Address,
     BlockCount |-> IF Kind = SpdIoctlTransactUnmapKind THEN 0 ELSE Count,
     Count |-> IF Kind = SpdIoctlTransactUnmapKind THEN 1 ELSE 0]

(* lines 629-631: the unmap descriptor, as it lies in memory *)
UnmapDescriptor(Address, Count) ==
    ToBytesLE(Address, 8) \o ToBytesLE(Count, 4) \o Zeros(4)

(* lines 616-633: what building the request does to the data buffer *)
StampedBuffer(Kind, Address, Count) ==
    IF Kind = SpdIoctlTransactWriteKind
    THEN FillOrTest(DataBuffer, StorageUnitParams.BlockLength, Address, Count,
                    SpdIoctlTransactReservedKind).Buffer
    ELSE IF Kind = SpdIoctlTransactUnmapKind
    THEN BufWrite(DataBuffer, 0, UnmapDescriptor(Address, Count))
    ELSE DataBuffer

(* NextTestOpKind without the reset at the start of a batch *)
NextTestOpKind_NoReset(Kind, j, Previous) ==
    IF Kind \in {SpdIoctlTransactWriteKind, SpdIoctlTransactUnmapKind} THEN Kind
    ELSE Previous

(* lines 601, 621, 632: TestOpKind after the request of kind Kind is built *)
NextTestOpKind(Kind, j, Previous) ==
    IF Kind \in {SpdIoctlTransactWriteKind, SpdIoctlTransactUnmapKind} THEN Kind
    ELSE IF 0 = j THEN SpdIoctlTransactReservedKind
    ELSE Previous

(* line 608: the kind of operation i *)
OpKindAt(Kinds, i, Count) == Kinds[(i % Count) + 1]

(* a J that is 0 after every operation *)
NextJ_AlwaysZero(j, Count) == 0

(* lines 676-677: J++; J %= OpKindCount *)
NextJ(j, Count) == (j + 1) % Count

(* lines 578-636: the loop test, the batch setup when J = 0, the request, and the *)
(* call of StgTransact.  BlockCount %= 0 raises the integer-divide exception,     *)
(* which ends the process; a store past the end of DataBuffer corrupts the heap,  *)
(* after which the process may go on or die.                                     *)
RunIssue ==
    /\ pc = "Loop"
    /\ IF ~(OpCount > I)
       THEN /\ Error' = ERROR_SUCCESS
            /\ pc' = "RunExit"
            /\ UNCHANGED <<BlockAddress, BlockCount, RandomSeed, OpBlockCount, TestOpKind,
                           Req, Rsp, DataBuffer, log>>
       ELSE IF 0 = J /\ RandomCount /\ 0 = MaxBlockCount
       THEN /\ pc' = "crashed"
            /\ UNCHANGED <<Error, BlockAddress, BlockCount, RandomSeed, OpBlockCount,
                           TestOpKind, Req, Rsp, DataBuffer, log>>
       ELSE LET a == IF 0 = J
                     THEN BatchAddress(BlockAddress, BlockCount, RandomSeed, I,
                                       StorageUnitParams.BlockCount, RandomAddress)
                     ELSE [BlockAddress |-> BlockAddress, RandomSeed |-> RandomSeed]
                c == IF 0 = J
                     THEN BatchCount(BlockCount, a.RandomSeed, MaxBlockCount, RandomCount)
                     ELSE [BlockCount |-> BlockCount, RandomSeed |-> RandomSeed]
                oc == IF 0 = J
                      THEN EffectiveCount(a.BlockAddress, c.BlockCount,
                                          StorageUnitParams.BlockCount)
                      ELSE OpBlockCount
                kind == OpKindAt(OpKinds, I, OpKindCount)
                buf == StampedBuffer(kind, a.BlockAddress, oc)
            IN  /\ BlockAddress' = a.BlockAddress
                /\ BlockCount' = c.BlockCount
                /\ RandomSeed' = c.RandomSeed
                /\ OpBlockCount' = oc
                /\ TestOpKind' = NextTestOpKind(kind, J, TestOpKind)
                /\ Req' = BuildReq(kind, I, a.BlockAddress, oc)
                /\ Rsp' = NoRsp
                /\ DataBuffer' = buf
                /\ log' = Append(log, [Kind |-> kind, BlockAddress |-> a.BlockAddress,
                                        BlockCount |-> oc, BatchCount |-> c.BlockCount,
                                        I |-> I,
                                        Hint |-> BuildReq(kind, I, a.BlockAddress, oc).Hint])
                /\ Error' = Error
                /\ \/ pc' = "StgTransact"
                   \/ /\ Len(buf) > DataBufferSize
                      /\ pc' = "crashed"
    /\ UNCHANGED <<args, unit, osOpen, hFile, Handle, StorageUnitParams, DataBufferSize,
                   OpCount, OpKinds, OpKindCount, RandomAddress, RandomCount,
                   MaxBlockCount, ThreadId, I, J, Msg, ioVars, hist>>

(* ---------------- overlapped I/O ---------------- *)

(* a WaitOverlappedResult that returns without waiting *)
WaitOverlappedResultReturns_AtOnce(op) == TRUE

(* WaitOverlappedResult returns only when the I/O it waits for has completed: *)
(* GetOverlappedResult is called with bWait = TRUE                            *)
WaitOverlappedResultReturns(op) == completion.Op = op

Issue(op) == pending' = pending \cup {op}

(* the OS completes an overlapped WriteFile (on either transport) *)
OsCompletesWrite ==
    /\ "WriteFile" \in pending
    /\ completion = NoIo
    /\ pending' = pending \ {"WriteFile"}
    /\ \E e \in {ERROR_SUCCESS} \cup Failures :
           completion' = [Op |-> "WriteFile", Error |-> e, Msg |-> NoMsg]
    /\ UNCHANGED <<pc, args, unit, osOpen, hFile, Handle, StorageUnitParams, runLocals,
                   Error, Msg, log, hist>>

(* ---------------- StgTransactPipe ---------------- *)

(* lines 186-198: the length of the payload sent after the request *)
PipePayloadLength(R, BlockLength) ==
    IF R.Kind = SpdIoctlTransactWriteKind
    THEN MulMod(R.BlockCount, BlockLength, UINT32_MOD)
    ELSE IF R.Kind = SpdIoctlTransactUnmapKind
    THEN MulMod(R.Count, SizeofUnmapDescriptor, UINT32_MOD)
    ELSE 0

(* the return of StgTransact to run, line 636 *)
TransactReturns(err) ==
    /\ Error' = err
    /\ Msg' = NoMsg
    /\ pc' = "RunCheck"

(* lines 163-206: the event, the message buffer, the request message, WriteFile *)
StgTransactPipe_Send ==
    /\ pc = "StgTransact"
    /\ IsPipeHandle(Handle)
    /\ \/ \E e \in (IF unit.Faulty THEN OsErrors \cup {ERROR_NO_SYSTEM_RESOURCES} ELSE {}) :
            /\ TransactReturns(e)
            /\ UNCHANGED pending
       \/ /\ Msg' = [Bytes |-> SizeofTransactMsg +
                                   PipePayloadLength(Req, StorageUnitParams.BlockLength),
                     Hdr |-> Req,
                     Payload |-> BufRead(DataBuffer, 0,
                                    PipePayloadLength(Req, StorageUnitParams.BlockLength))]
          /\ Issue("WriteFile")
          /\ pc' = "PipeWriteWait"
          /\ UNCHANGED Error
    /\ UNCHANGED <<args, unit, osOpen, hFile, Handle, StorageUnitParams, runLocals,
                   completion, log, hist>>

(* lines 202-211: the write has completed; ReadFile for the response *)
StgTransactPipe_Receive ==
    /\ pc = "PipeWriteWait"
    /\ WaitOverlappedResultReturns("WriteFile")
    /\ completion' = NoIo
    /\ IF ERROR_SUCCESS # completion.Error
       THEN /\ TransactReturns(completion.Error)
            /\ UNCHANGED pending
       ELSE \/ \E e \in Failures :
                 /\ TransactReturns(e)
                 /\ UNCHANGED pending
            \/ /\ Issue("ReadFile")
               /\ pc' = "PipeReadWait"
               /\ UNCHANGED <<Error, Msg>>
    /\ UNCHANGED <<args, unit, osOpen, hFile, Handle, StorageUnitParams, runLocals,
                   log, hist>>

(* PipeRspRefused without the comparison of the hints *)
PipeRspRefused_IgnoresHint(BytesTransferred, ReqHint, RspHint) ==
    SizeofTransactMsg > BytesTransferred

(* line 214: the response message is refused *)
PipeRspRefused(BytesTransferred, ReqHint, RspHint) ==
    SizeofTransactMsg > BytesTransferred \/ ReqHint # RspHint

(* line 219: the response carries read data *)
PipeRspHasData(Hdr) ==
    SpdIoctlTransactReadKind = Hdr.Kind /\ SCSISTAT_GOOD = Hdr.ScsiStatus

(* PipeCopyData without the memcpy: the zero fill only *)
PipeCopyData_ZeroFillOnly(Buffer, Payload, BytesTransferred, DataLength) ==
    LET n == Min(BytesTransferred - SizeofTransactMsg, DataLength)
    IN  BufWrite(Buffer, n, Zeros(DataLength - n))

(* PipeCopyData without the clamp of the bytes received to DataLength *)
PipeCopyData_NoTruncate(Buffer, Payload, BytesTransferred, DataLength) ==
    LET n == BytesTransferred - SizeofTransactMsg
    IN  BufWrite(BufWrite(Buffer, 0, SubSeq(Payload, 1, n)), n, Zeros(DataLength - n))

(* lines 227-231: the payload copied to the caller's buffer, then the zero fill *)
PipeCopyData(Buffer, Payload, BytesTransferred, DataLength) ==
    LET n == Min(BytesTransferred - SizeofTransactMsg, DataLength)
    IN  BufWrite(BufWrite(Buffer, 0, SubSeq(Payload, 1, n)), n, Zeros(DataLength - n))

(* lines 212-243: the read has completed; validation, copy-out, return *)
StgTransactPipe_Finish ==
    /\ pc = "PipeReadWait"
    /\ WaitOverlappedResultReturns("ReadFile")
    /\ completion' = NoIo
    /\ hist' = [hist EXCEPT !.Received = completion.Msg]
    /\ LET m == completion.Msg
           DataLength == MulMod(Req.BlockCount, StorageUnitParams.BlockLength, UINT32_MOD)
       IN  IF ERROR_SUCCESS # completion.Error
           THEN /\ TransactReturns(completion.Error)
                /\ UNCHANGED <<Rsp, DataBuffer>>
           ELSE IF PipeRspRefused(m.Bytes, Req.Hint, m.Hdr.Hint)
           THEN /\ TransactReturns(ERROR_IO_DEVICE)
                /\ UNCHANGED <<Rsp, DataBuffer>>
           ELSE IF PipeRspHasData(m.Hdr) /\ DataLength > StorageUnitParams.MaxTransferLength
           THEN /\ TransactReturns(ERROR_IO_DEVICE)
                /\ UNCHANGED <<Rsp, DataBuffer>>
           ELSE /\ DataBuffer' = (IF PipeRspHasData(m.Hdr)
                                  THEN PipeCopyData(DataBuffer, m.Payload, m.Bytes, DataLength)
                                  ELSE DataBuffer)
                /\ Rsp' = m.Hdr
                /\ TransactReturns(ERROR_SUCCESS)
    /\ UNCHANGED <<args, unit, osOpen, hFile, Handle, StorageUnitParams, DataBufferSize,
                   OpCount, OpKinds, OpKindCount, BlockAddress, BlockCount, RandomSeed,
                   RandomAddress, RandomCount, MaxBlockCount, OpBlockCount, TestOpKind,
                   ThreadId, I, J, Req, pending, log>>

(* ---------------- the pipe service (any service at all) ---------------- *)

(* the bytes a unit holding the stamp of a Write of Count blocks at Address returns: *)
(* the stamped words, and 0 in the bytes of a block after its last whole word        *)
PatternBytes(BlockLength, Address, Count, n) ==
    SubSeq(FillOrTest(Zeros(n), BlockLength, Address, Count,
                      SpdIoctlTransactReservedKind).Buffer, 1, n)

(* a sequence with its byte at offset k changed *)
Corrupt(bytes, k) == [j \in 1..Len(bytes) |-> IF j = k + 1 THEN (bytes[j] + 1) % 256 ELSE bytes[j]]

(* the read payloads a service may send for a region; n is the length asked for *)
ReadPayloads(BlockLength, Address, Count, n, MaxLength) ==
    LET pattern == PatternBytes(BlockLength, Address, Count, n)
    IN  {pattern, Zeros(n), SubSeq(pattern, 1, n \div 2), << >>}
        \cup (IF n > 0 THEN {Corrupt(pattern, n - SizeofWord)} ELSE {})
        \cup (IF n + 4 <= MaxLength THEN {pattern \o <<1, 2, 3, 4>>} ELSE {})

RspMsg(Hint, Kind, Status, Payload) ==
    [Bytes |-> SizeofTransactMsg + Len(Payload),
     Hdr |-> [Hint |-> Hint, Kind |-> Kind, ScsiStatus |-> Status],
     Payload |-> Payload]

(* the response messages a service may send to the request R *)
RspChoices(R, P, Address, Count) ==
    LET n == MulMod(R.BlockCount, P.BlockLength, UINT32_MOD)
        data == IF n <= P.MaxTransferLength
                THEN ReadPayloads(P.BlockLength, Address, Count, n, P.MaxTransferLength)
                ELSE {<< >>}
        other == IF R.Kind = SpdIoctlTransactReadKind
                 THEN SpdIoctlTransactWriteKind ELSE SpdIoctlTransactReadKind
    IN  {RspMsg(R.Hint, R.Kind, SCSISTAT_GOOD, d) :
            d \in IF R.Kind = SpdIoctlTransactReadKind THEN data ELSE {<< >>}}
        \cup {RspMsg((R.Hint + 1) % UINT64_MOD, R.Kind, SCSISTAT_GOOD, Zeros(Min(n, 8))),
              RspMsg(R.Hint, other, SCSISTAT_GOOD, Zeros(Min(n, 8))),
              RspMsg(R.Hint, R.Kind, SCSISTAT_CHECK_CONDITION, << >>),
              [Bytes |-> SizeofTransactMsg - 1,
               Hdr |-> [Hint |-> R.Hint, Kind |-> R.Kind, ScsiStatus |-> SCSISTAT_GOOD],
               Payload |-> << >>]}

(* the responses to the earlier requests of the run, come late: l is the log *)
(* of the requests issued, the last of them the one that is waited for       *)
StaleResponses(l) ==
    {RspMsg(l[k].Hint, l[k].Kind, SCSISTAT_GOOD, << >>) : k \in 1..(Len(l) - 1)}

(* the OS completes the ReadFile of StgTransactPipe: an error, or a message *)
OsCompletesPipeRead ==
    /\ "ReadFile" \in pending
    /\ IsPipeHandle(Handle)
    /\ completion = NoIo
    /\ pending' = pending \ {"ReadFile"}
    /\ \/ \E e \in Failures :
            completion' = [Op |-> "ReadFile", Error |-> e, Msg |-> NoMsg]
       \/ \E m \in RspChoices(Req, StorageUnitParams, BlockAddress, OpBlockCount)
                        \cup StaleResponses(log) :
            completion' = [Op |-> "ReadFile", Error |-> ERROR_SUCCESS, Msg |-> m]
    /\ UNCHANGED <<pc, args, unit, osOpen, hFile, Handle, StorageUnitParams, runLocals,
                   Error, Msg, log, hist>>

(* ---------------- StgTransactRaw ---------------- *)

(* a parameter check that lets every kind through *)
RawReqRefused_NoKindTest(R) == FALSE

(* lines 367-369: the request is refused *)
RawReqRefused(R) ==
    SpdIoctlTransactReadKind # R.Kind /\ SpdIoctlTransactWriteKind # R.Kind

(* lines 365-401: the parameter check, the event, WriteFile or ReadFile at the offset *)
StgTransactRaw_Issue ==
    /\ pc = "StgTransact"
    /\ ~IsPipeHandle(Handle)
    /\ IF RawReqRefused(Req)
       THEN /\ TransactReturns(ERROR_INVALID_PARAMETER)
            /\ UNCHANGED pending
       ELSE \/ \E e \in Failures :
                 /\ TransactReturns(e)
                 /\ UNCHANGED pending
            \/ /\ Issue(IF Req.Kind = SpdIoctlTransactWriteKind
                        THEN "WriteFile" ELSE "ReadFile")
               /\ pc' = "RawWait"
               /\ UNCHANGED <<Error, Msg>>
    /\ UNCHANGED <<args, unit, osOpen, hFile, Handle, StorageUnitParams, runLocals,
                   completion, log, hist>>

(* the OS completes the ReadFile of StgTransactRaw: an error, or up to the bytes *)
(* asked for, whatever the volume holds                                         *)
OsCompletesRawRead ==
    /\ "ReadFile" \in pending
    /\ ~IsPipeHandle(Handle)
    /\ completion = NoIo
    /\ pending' = pending \ {"ReadFile"}
    /\ \/ \E e \in Failures :
            completion' = [Op |-> "ReadFile", Error |-> e, Msg |-> NoMsg]
       \/ LET n == MulMod(Req.BlockCount, StorageUnitParams.BlockLength, UINT32_MOD)
              pattern == PatternBytes(StorageUnitParams.BlockLength, Req.BlockAddress,
                                      Req.BlockCount, n)
          IN  \E d \in {pattern, Zeros(n), SubSeq(Zeros(n), 1, n \div 2), << >>} :
                completion' = [Op |-> "ReadFile", Error |-> ERROR_SUCCESS,
                               Msg |-> [Bytes |-> Len(d), Hdr |-> NoRsp, Payload |-> d]]
    /\ UNCHANGED <<pc, args, unit, osOpen, hFile, Handle, StorageUnitParams, runLocals,
                   Error, Msg, log, hist>>

(* lines 390-419: the I/O has completed; the response is made up.  A ReadFile into *)
(* a buffer shorter than the length asked for writes past its end.                *)
StgTransactRaw_Finish ==
    /\ pc = "RawWait"
    /\ WaitOverlappedResultReturns(IF Req.Kind = SpdIoctlTransactWriteKind
                                   THEN "WriteFile" ELSE "ReadFile")
    /\ completion' = NoIo
    /\ hist' = [hist EXCEPT !.Received = completion.Msg]
    /\ IF ERROR_SUCCESS # completion.Error
       THEN /\ TransactReturns(completion.Error)
            /\ UNCHANGED <<Rsp, DataBuffer>>
       ELSE /\ DataBuffer' = BufWrite(DataBuffer, 0, completion.Msg.Payload)
            /\ Rsp' = [Hint |-> Req.Hint, Kind |-> Req.Kind, ScsiStatus |-> SCSISTAT_GOOD]
            /\ Error' = ERROR_SUCCESS
            /\ Msg' = NoMsg
            /\ \/ pc' = "RunCheck"
               \/ /\ Len(completion.Msg.Payload) > DataBufferSize
                  /\ pc' = "crashed"
    /\ UNCHANGED <<args, unit, osOpen, hFile, Handle, StorageUnitParams, DataBufferSize,
                   OpCount, OpKinds, OpKindCount, BlockAddress, BlockCount, RandomSeed,
                   RandomAddress, RandomCount, MaxBlockCount, OpBlockCount, TestOpKind,
                   ThreadId, I, J, Req, pending, log>>

(* ---------------- run: validation, exit ---------------- *)

(* the CheckConditions without the one on the status *)
CheckConditionFails_IgnoresStatus(R, S) ==
    \/ ~(R.Hint = S.Hint)
    \/ ~(R.Kind = S.Kind)

(* lines 643-645: a CheckCondition fails *)
CheckConditionFails(R, S) ==
    \/ ~(R.Hint = S.Hint)
    \/ ~(R.Kind = S.Kind)
    \/ ~(SCSISTAT_GOOD = S.ScsiStatus)

(* lines 646-649, 661: the data of the response is put to the oracle *)
OracleApplies(S, TestKind) ==
    /\ SpdIoctlTransactReadKind = S.Kind
    /\ TestKind \in {SpdIoctlTransactWriteKind, SpdIoctlTransactUnmapKind}

(* lines 646-674: the oracle refuses the data of a Read *)
OracleFails(S, Buffer, BlockLength, Address, Count, TestKind) ==
    /\ OracleApplies(S, TestKind)
    /\ 0 = FillOrTest(Buffer, BlockLength, Address, Count, TestKind).Result

(* lines 637-678: after StgTransact; the checks, then J and I advance *)
RunCheck ==
    /\ pc = "RunCheck"
    /\ IF ERROR_SUCCESS # Error
       THEN /\ pc' = "RunExit"
            /\ UNCHANGED <<Error, I, J>>
       ELSE IF \/ CheckConditionFails(Req, Rsp)
               \/ OracleFails(Rsp, DataBuffer, StorageUnitParams.BlockLength,
                              BlockAddress, OpBlockCount, TestOpKind)
       THEN /\ Error' = ERROR_IO_DEVICE
            /\ pc' = "RunExit"
            /\ UNCHANGED <<I, J>>
       ELSE /\ J' = NextJ(J, OpKindCount)
            /\ I' = I + 1
            /\ pc' = "Loop"
            /\ UNCHANGED Error
    /\ UNCHANGED <<args, unit, osOpen, hFile, Handle, StorageUnitParams, DataBuffer,
                   DataBufferSize, OpCount, OpKinds, OpKindCount, BlockAddress, BlockCount,
                   RandomSeed, RandomAddress, RandomCount, MaxBlockCount, OpBlockCount,
                   TestOpKind, ThreadId, Req, Rsp, Msg, ioVars, log, hist>>

(* lines 450-456: StgClose; CloseHandle succeeds or fails, the error is returned *)
StgCloseResults == {ERROR_SUCCESS} \cup Failures

(* lines 682-688: MemFree, StgClose when a handle is open, return Error; the bytes *)
(* of the freed buffer stay where they were                                        *)
RunExit ==
    /\ pc = "RunExit"
    /\ pc' = "done"
    /\ DataBufferSize' = 0
    /\ IF INVALID_HANDLE_VALUE # Handle
       THEN \E r \in StgCloseResults :
              /\ osOpen' = (IF r = ERROR_SUCCESS
                            THEN osOpen \ {IF IsPipeHandle(Handle)
                                           THEN GetPipeHandle(Handle)
                                           ELSE GetRawHandle(Handle)}
                            ELSE osOpen)
              /\ hist' = [hist EXCEPT !.Closes = @ + 1,
                                      !.CloseFailed = (r # ERROR_SUCCESS)]
       ELSE UNCHANGED <<osOpen, hist>>
    /\ UNCHANGED <<args, unit, hFile, Handle, StorageUnitParams, DataBuffer, OpCount,
                   OpKinds, OpKindCount, BlockAddress, BlockCount, RandomSeed, RandomAddress,
                   RandomCount, MaxBlockCount, OpBlockCount, TestOpKind, ThreadId,
                   I, J, Req, Rsp, Error, Msg, ioVars, log>>

(* ---------------- the program against any environment ---------------- *)

(* StgOpen accepts the unit, when no call fails *)
UnitOpens(Name, u) ==
    IF IsPipeName(Name)
    THEN ~HandshakeRefused(u.Bytes, u.Params)
    ELSE ~RawGeometryRefused(Params(RawBlockCount(u.LogicalBlockAddress),
                                    RawBlockLength(u.BytesPerBlock), 0))

(* every command line against every unit that opens; one against each that does not *)
Init ==
    \E a \in Args : \E u \in Units(a.PipeName) :
        /\ UnitOpens(a.PipeName, u) \/ a = PlainArgs(a.PipeName)
        /\ InitRun(a, u, TRUE)

Next ==
    \/ StgOpenPipe_Connect
    \/ StgOpenPipe_Retry
    \/ StgOpenPipe_SetMode
    \/ StgOpenPipe_Handshake
    \/ StgOpenRaw_Create
    \/ StgOpenRaw_ReadCapacity
    \/ StgOpenRaw_BlockLimits
    \/ RunAfterOpen
    \/ RunIssue
    \/ StgTransactPipe_Send
    \/ OsCompletesWrite
    \/ StgTransactPipe_Receive
    \/ OsCompletesPipeRead
    \/ StgTransactPipe_Finish
    \/ StgTransactRaw_Issue
    \/ OsCompletesRawRead
    \/ StgTransactRaw_Finish
    \/ RunCheck
    \/ RunExit

Spec == Init /\ [][Next]_vars

(* ---------------- run against a faithful pipe service ---------------- *)

(* the block at address a of a unit of block length BlockLength: what was last *)
(* written there, or a block that was never written                            *)
StoreRead(Store, a, BlockLength) ==
    IF a \in DOMAIN Store THEN Store[a] ELSE [k \in 1..BlockLength |-> 238]

(* the store after Count blocks from Address on are set to the blocks of Data *)
StoreWrite(Store, Address, Count, BlockLength, Data) ==
    LET written == {(Address + i) % UINT64_MOD : i \in 0..(Count - 1)}
    IN  [b \in (DOMAIN Store) \cup written |->
            IF b \in written
            THEN SubSeq(Data, ((b - Address) % UINT64_MOD) * BlockLength + 1,
                              (((b - Address) % UINT64_MOD) + 1) * BlockLength)
            ELSE Store[b]]

(* the region named by the unmap descriptor at the head of a payload *)
DescriptorOf(Payload) ==
    [BlockAddress |-> FromBytesLE(SubSeq(Payload, 1, 8), UINT64_MOD),
     BlockCount |-> FromBytesLE(SubSeq(Payload, 9, 12), UINT32_MOD)]

(* what the service does with the request message M: the store, and the response *)
Serve(Store, M, BlockLength) ==
    LET R == M.Hdr
        d == DescriptorOf(M.Payload)
        blocks == [i \in 1..R.BlockCount |->
                      StoreRead(Store, (R.BlockAddress + i - 1) % UINT64_MOD, BlockLength)]
        data == [k \in 1..(R.BlockCount * BlockLength) |->
                      blocks[((k - 1) \div BlockLength) + 1][((k - 1) % BlockLength) + 1]]
    IN  [Store |->
            IF R.Kind = SpdIoctlTransactWriteKind
            THEN StoreWrite(Store, R.BlockAddress, R.BlockCount, BlockLength, M.Payload)
            ELSE IF R.Kind = SpdIoctlTransactUnmapKind /\ R.Count >= 1
            THEN StoreWrite(Store, d.BlockAddress, d.BlockCount, BlockLength,
                            Zeros(d.BlockCount * BlockLength))
            ELSE Store,
         Rsp |-> RspMsg(R.Hint, R.Kind, SCSISTAT_GOOD,
                        IF R.Kind = SpdIoctlTransactReadKind THEN data ELSE << >>)]

(* the service has taken the request message and answers it *)
ServiceAnswers ==
    /\ "ReadFile" \in pending
    /\ IsPipeHandle(Handle)
    /\ completion = NoIo
    /\ pending' = pending \ {"ReadFile"}
    /\ unit' = [unit EXCEPT !.Store = Serve(unit.Store, Msg, unit.Reply.Params.BlockLength).Store]
    /\ completion' = [Op |-> "ReadFile", Error |-> ERROR_SUCCESS,
                      Msg |-> Serve(unit.Store, Msg, unit.Reply.Params.BlockLength).Rsp]
    /\ UNCHANGED <<pc, args, osOpen, hFile, Handle, StorageUnitParams, runLocals,
                   Error, Msg, log, hist>>

MaxFaithfulOps == 4
FaithfulUnits ==
    {[Bytes |-> SizeofStorageUnitParams, Params |-> P] :
        P \in {Params(5, 16, 32), Params(UINT64_MAX, 16, 48), Params(3, 24, 24),
               Params(4, 20, 40)}}
FaithfulArgs ==
    {a \in [PipeName : {PipeNameArg}, OpCount : {0, MaxFaithfulOps},
            OpSet : OpSets \cup {<<"W", "R", "U", "R">>, <<"U", "F", "R", "R">>},
            BlockAddress : AddressArgs, BlockCount : CountArgs,
            RandomSeed : SeedArgs \cup {DefaultSeed}] :
        a.RandomSeed = DefaultSeed
            <=> (a.BlockAddress # UINT64_MAX /\ a.BlockCount # UINT32_MAX)}

InitFaithful ==
    \E a \in FaithfulArgs : \E u \in FaithfulUnits : InitRun(a, u, FALSE)

NextFaithful ==
    \/ StgOpenPipe_Connect
    \/ StgOpenPipe_Retry
    \/ StgOpenPipe_SetMode
    \/ StgOpenPipe_Handshake
    \/ RunAfterOpen
    \/ RunIssue
    \/ StgTransactPipe_Send
    \/ OsCompletesWrite
    \/ StgTransactPipe_Receive
    \/ ServiceAnswers
    \/ StgTransactPipe_Finish
    \/ RunCheck
    \/ RunExit

SpecFaithful == InitFaithful /\ [][NextFaithful]_vars

(* the command lines of FaithfulArgs that give the address and the count, from *)
(* the first block and from the last but one                                   *)
LiveOpSets == {<< >>, <<"w", "F", "r">>, <<"U", "R", "x">>}
LiveArgs ==
    {a \in FaithfulArgs :
        /\ a.OpSet \in LiveOpSets
        /\ a.BlockAddress \in {0, UINT64_MAX - 1}
        /\ a.BlockCount # UINT32_MAX}

InitLive ==
    \E a \in LiveArgs : \E u \in FaithfulUnits : InitRun(a, u, FALSE)

(* the process is scheduled and the service answers: a step that can be taken *)
(* is taken in the end                                                         *)
SpecFaithfulLive == InitLive /\ [][NextFaithful]_vars /\ WF_vars(NextFaithful)

(* ---------------- the same command line run twice ---------------- *)

(* the (Kind, BlockAddress, BlockCount) of the requests of a log *)
Issued(l) == [k \in 1..Len(l) |-> <<l[k].Kind, l[k].BlockAddress, l[k].BlockCount>>]

(* the process has ended; stgpipe is started again with the command line it had, *)
(* against the unit it had                                                      *)
Restart ==
    /\ pc \in {"done", "crashed"}
    /\ hist.Run = 1
    /\ pc' = "StgOpen"
    /\ osOpen' = {}
    /\ hFile' = INVALID_HANDLE_VALUE
    /\ Handle' = INVALID_HANDLE_VALUE
    /\ StorageUnitParams' = Params(0, 0, 0)
    /\ DataBuffer' = << >>
    /\ DataBufferSize' = 0
    /\ OpCount' = args.OpCount
    /\ OpKinds' = << >>
    /\ OpKindCount' = 0
    /\ BlockAddress' = args.BlockAddress
    /\ BlockCount' = args.BlockCount
    /\ RandomSeed' = args.RandomSeed
    /\ MaxBlockCount' = 0
    /\ OpBlockCount' = 0
    /\ TestOpKind' = SpdIoctlTransactReservedKind
    /\ ThreadId' = 0
    /\ I' = 0
    /\ J' = 0
    /\ Req' = NoReq
    /\ Rsp' = NoRsp
    /\ Error' = ERROR_SUCCESS
    /\ RandomAddress' = FALSE
    /\ RandomCount' = FALSE
    /\ Msg' = NoMsg
    /\ pending' = {}
    /\ completion' = NoIo
    /\ log' = << >>
    /\ hist' = [Connects |-> 0, HandshakeReads |-> 0, Closes |-> 0, CloseFailed |-> FALSE,
                Received |-> NoMsg, Run |-> 2, PrevLog |-> Issued(log),
                ConnectErrors |-> << >>, Waits |-> << >>]
    /\ UNCHANGED <<args, unit>>

PairOpSets == {<< >>, <<"r">>, <<"U", "R", "x">>}
PairArgs ==
    {a \in [PipeName : Names, OpCount : {MaxOpCount}, OpSet : PairOpSets,
            BlockAddress : {4, UINT64_MAX}, BlockCount : {2, UINT32_MAX},
            RandomSeed : {7, DefaultSeed}] :
        a.RandomSeed = DefaultSeed
            <=> (a.BlockAddress # UINT64_MAX /\ a.BlockCount # UINT32_MAX)}

InitPair ==
    \E a \in PairArgs : \E u \in Units(a.PipeName) :
        /\ UnitOpens(a.PipeName, u)
        /\ InitRun(a, u, TRUE)

NextPair == Next \/ Restart

SpecPair == InitPair /\ [][NextPair]_vars

(* ======================= the claims ======================= *)

(* the transport is open and its geometry known *)
Opened == Handle # INVALID_HANDLE_VALUE

(* C1: every request that run issues after a successful open addresses blocks of  *)
(* the unit only: its BlockAddress is below Geometry.BlockCount, its count is at   *)
(* least 1, and BlockAddress + count does not exceed Geometry.BlockCount.          *)
C1_RequestsInsideUnit ==
    \A k \in 1..Len(log) :
        /\ log[k].BlockAddress < StorageUnitParams.BlockCount
        /\ log[k].BlockCount >= 1
        /\ log[k].BlockAddress + log[k].BlockCount <= StorageUnitParams.BlockCount

(* C1 holds of the units on which BlockAddress + BlockCount cannot wrap *)
C1_RequestsInsideSmallUnit ==
    StorageUnitParams.BlockCount + UINT32_MAX < UINT64_MOD => C1_RequestsInsideUnit

(* the invariants of a Geometry *)
GeometryValid(P) ==
    /\ P.BlockCount > 0
    /\ P.BlockLength >= 16
    /\ P.MaxTransferLength > 0
    /\ P.MaxTransferLength % P.BlockLength = 0

(* the operation whose transact has just returned has failed *)
C2_OpFailed ==
    /\ pc = "RunCheck"
    /\ \/ Error # ERROR_SUCCESS
       \/ Rsp.Hint # Req.Hint
       \/ Rsp.Kind # Req.Kind
       \/ Rsp.ScsiStatus # SCSISTAT_GOOD
       \/ OracleFails(Rsp, DataBuffer, StorageUnitParams.BlockLength, BlockAddress,
                      OpBlockCount, TestOpKind)

(* C2: once an operation fails in run (transact returns an error, the response   *)
(* does not echo Hint or Kind, the status is not good, or the oracle refuses the *)
(* data of a Read), run goes to its exit with a nonzero result: no request is    *)
(* issued after it, no I/O is started, and the result stays what it was.         *)
C2_FailureHalts ==
    [][/\ C2_OpFailed =>
            pc' = "RunExit" /\ Error' # ERROR_SUCCESS /\ log' = log /\ pending' = {}
       /\ pc = "RunExit" =>
            pc' = "done" /\ Error' = Error /\ log' = log /\ pending' = {}
       /\ pc # "done"]_vars

(* a run of several operations that ended at an operation answered with a bad status *)
C2_HaltedOnBadStatus ==
    /\ pc = "done"
    /\ Error # ERROR_SUCCESS
    /\ Len(log) >= 1
    /\ Len(log) < OpCount
    /\ Rsp.Hint = Req.Hint
    /\ Rsp.Kind = Req.Kind
    /\ Rsp.ScsiStatus = SCSISTAT_CHECK_CONDITION

(* C3: StgTransactPipe returns success only if the response message received is *)
(* at least a response header long and carries the Hint of the request; when it *)
(* is not, StgTransactPipe returns an error and leaves the caller's response    *)
(* and data buffer as they were, and run goes to its exit with that error.      *)
C3_PipeResponseChecked ==
    [][/\ pc = "PipeReadWait" /\ pc' = "RunCheck" =>
            LET ok == /\ completion.Error = ERROR_SUCCESS
                      /\ completion.Msg.Bytes >= SizeofTransactMsg
                      /\ completion.Msg.Hdr.Hint = Req.Hint
            IN  /\ Error' = ERROR_SUCCESS => ok
                /\ ~ok => Error' # ERROR_SUCCESS /\ Rsp' = Rsp /\ DataBuffer' = DataBuffer
       /\ pc = "RunCheck" /\ IsPipeHandle(Handle) /\ Error # ERROR_SUCCESS =>
            pc' = "RunExit" /\ Error' = Error /\ log' = log]_vars

(* the first response of a run came whole but with another Hint, and was refused *)
C3_MismatchedHintRefused ==
    /\ pc = "RunCheck"
    /\ Len(log) = 1
    /\ hist.Received.Bytes >= SizeofTransactMsg
    /\ hist.Received.Hdr.Hint # Req.Hint
    /\ Error = ERROR_IO_DEVICE
    /\ Rsp = NoRsp

(* C4: the raw transport is open only with a Geometry that has BlockCount > 0, *)
(* BlockLength >= 16, MaxTransferLength > 0 and MaxTransferLength a multiple   *)
(* of BlockLength.                                                             *)
C4_RawOpenGeometryValid ==
    Opened /\ ~IsPipeHandle(Handle) => GeometryValid(StorageUnitParams)

(* C5: the pipe transport is open only after one handshake read that delivered *)
(* a whole Geometry satisfying the invariants; the handshake read is never     *)
(* repeated; and when StgOpen returns an error for a pipe, no channel is open  *)
(* and the handle of run is invalid.                                           *)
C5_PipeOpenChecked ==
    IsPipeName(args.PipeName) =>
        /\ hist.HandshakeReads <= 1
        /\ Opened =>
              /\ hist.HandshakeReads = 1
              /\ unit.Reply.Bytes >= SizeofStorageUnitParams
              /\ StorageUnitParams = unit.Reply.Params
              /\ GeometryValid(StorageUnitParams)
        /\ pc = "RunAfterOpen" /\ Error = ERROR_SUCCESS => Opened
        /\ pc = "RunAfterOpen" /\ Error # ERROR_SUCCESS => ~Opened /\ osOpen = {}

(* the handshake delivered a MaxTransferLength that is no multiple of BlockLength: *)
(* the open has failed after its one read, with the channel closed                *)
C5_HandshakeRefusedOnce ==
    /\ pc = "RunAfterOpen"
    /\ IsPipeName(args.PipeName)
    /\ unit.Reply.Params = Params(5, 16, 24)
    /\ hist.HandshakeReads = 1
    /\ Error = ERROR_IO_DEVICE
    /\ ~Opened
    /\ osOpen = {}

(* C6: of two runs of one command line against one unit, the sequences of       *)
(* (Kind, BlockAddress, BlockCount) issued agree as far as both go, whatever the *)
(* service answered in either.                                                  *)
C6_SameSequence ==
    hist.Run = 2 =>
        \A k \in 1..Min(Len(hist.PrevLog), Len(log)) : hist.PrevLog[k] = Issued(log)[k]

(* a second run with randomized address and count that was halted earlier than *)
(* the first                                                                   *)
C6_SecondRunHaltedEarlier ==
    /\ hist.Run = 2
    /\ pc = "done"
    /\ RandomAddress
    /\ RandomCount
    /\ Len(log) = 2
    /\ Len(hist.PrevLog) = 3

(* C7: against a pipe service that stores what is written, returns zeros for   *)
(* what is unmapped and echoes Hint and Kind with good status, nothing fails:  *)
(* the open succeeds, every transact succeeds, every response passes the       *)
(* checks and the oracle, and run ends with result 0.                          *)
C7_FaithfulNeverFails ==
    /\ pc # "crashed"
    /\ pc \in {"RunAfterOpen", "RunCheck", "RunExit", "done"} => Error = ERROR_SUCCESS
    /\ pc = "RunCheck" =>
          /\ Rsp.Hint = Req.Hint
          /\ Rsp.Kind = Req.Kind
          /\ Rsp.ScsiStatus = SCSISTAT_GOOD
          /\ ~OracleFails(Rsp, DataBuffer, StorageUnitParams.BlockLength, BlockAddress,
                          OpBlockCount, TestOpKind)

(* a run of Write, Read, Unmap, Read on two blocks that has ended with result 0 *)
C7_VerifiedAfterWriteAndUnmap ==
    /\ pc = "done"
    /\ Error = ERROR_SUCCESS
    /\ Len(log) = 4
    /\ log[1].Kind = SpdIoctlTransactWriteKind
    /\ log[2].Kind = SpdIoctlTransactReadKind
    /\ log[3].Kind = SpdIoctlTransactUnmapKind
    /\ log[4].Kind = SpdIoctlTransactReadKind
    /\ log[4].BlockCount = 2

(* the data of the response just received is put to the oracle *)
C8_OracleApplied ==
    /\ pc = "RunCheck"
    /\ Error = ERROR_SUCCESS
    /\ Rsp.Hint = Req.Hint
    /\ Rsp.Kind = Req.Kind
    /\ Rsp.ScsiStatus = SCSISTAT_GOOD
    /\ OracleApplies(Rsp, TestOpKind)

(* the batch of the k-th request *)
C8_Batch(k) == log[k].I \div OpKindCount

(* C8, as stated: the oracle is applied to a Read only if the operation just *)
(* before it, in the same batch, was a Write or Unmap of the same region.    *)
C8_OracleOnlyRightAfter ==
    C8_OracleApplied =>
        /\ Len(log) >= 2
        /\ C8_Batch(Len(log) - 1) = C8_Batch(Len(log))
        /\ log[Len(log) - 1].Kind \in {SpdIoctlTransactWriteKind, SpdIoctlTransactUnmapKind}
        /\ log[Len(log) - 1].BlockAddress = log[Len(log)].BlockAddress
        /\ log[Len(log) - 1].BlockCount = log[Len(log)].BlockCount

(* C8, amended: the oracle is applied to a Read only if some earlier operation *)
(* of the same batch was a Write or Unmap of the same region; the last such    *)
(* operation gives the kind of the check.  A Read with no Write or Unmap       *)
(* before it in its batch (the first operation of a batch among them) is       *)
(* accepted without content verification.                                      *)
C8_OracleOnlyAfterInBatch ==
    C8_OracleApplied =>
        \E k \in 1..(Len(log) - 1) :
            /\ C8_Batch(k) = C8_Batch(Len(log))
            /\ log[k].Kind = TestOpKind
            /\ log[k].Kind \in {SpdIoctlTransactWriteKind, SpdIoctlTransactUnmapKind}
            /\ log[k].BlockAddress = log[Len(log)].BlockAddress
            /\ log[k].BlockCount = log[Len(log)].BlockCount
            /\ \A j \in (k + 1)..(Len(log) - 1) :
                   log[j].Kind \notin {SpdIoctlTransactWriteKind, SpdIoctlTransactUnmapKind}

(* the oracle is applied to a Read that follows a Flush that follows a Write *)
C8_OracleAppliedAfterFlush ==
    /\ C8_OracleApplied
    /\ Len(log) = 3
    /\ log[1].Kind = SpdIoctlTransactWriteKind
    /\ log[2].Kind = SpdIoctlTransactFlushKind
    /\ log[3].Kind = SpdIoctlTransactReadKind

(* C9: at most one I/O is outstanding at any time; the ReadFile of a pipe       *)
(* transact is issued only after its WriteFile has completed with success; and *)
(* a request is issued only when no I/O is outstanding and the request before  *)
(* it has returned from StgTransact and passed the checks of run.              *)
C9_OneAtATime ==
    [][/\ Cardinality(pending') <= 1
       /\ "ReadFile" \in pending' /\ "ReadFile" \notin pending /\ IsPipeHandle(Handle) =>
              /\ pending = {}
              /\ completion.Op = "WriteFile"
              /\ completion.Error = ERROR_SUCCESS
       /\ Len(log') > Len(log) =>
              /\ pending = {}
              /\ completion = NoIo
              /\ I = Len(log)
              /\ Len(log) > 0 =>
                    /\ Error = ERROR_SUCCESS
                    /\ Rsp.Hint = log[Len(log)].Hint
                    /\ Rsp.Kind = log[Len(log)].Kind
                    /\ Rsp.ScsiStatus = SCSISTAT_GOOD]_vars

(* the response read of the second operation of a run is outstanding *)
C9_SecondReadOutstanding ==
    /\ pending = {"ReadFile"}
    /\ IsPipeHandle(Handle)
    /\ Len(log) = 2

(* C10: the result of run is 0 only if the open succeeded and the close of the *)
(* transport did not fail.                                                     *)
C10_CloseFailurePropagated ==
    pc = "done" /\ Error = ERROR_SUCCESS => Opened /\ ~hist.CloseFailed

(* C11: on the raw transport StgTransact answers a Flush or Unmap request with *)
(* an error, starting no I/O and leaving the response and the data buffer as   *)
(* they were, and run then goes to its exit with that error and issues no      *)
(* further request.                                                            *)
C11_RawRefusesFlushUnmap ==
    [][/\ /\ pc = "StgTransact"
          /\ ~IsPipeHandle(Handle)
          /\ Req.Kind \in {SpdIoctlTransactFlushKind, SpdIoctlTransactUnmapKind}
          => /\ pc' = "RunCheck"
             /\ Error' # ERROR_SUCCESS
             /\ pending' = {}
             /\ completion' = NoIo
             /\ Rsp' = Rsp
             /\ DataBuffer' = DataBuffer
       /\ /\ pc = "RunCheck"
          /\ ~IsPipeHandle(Handle)
          /\ Req.Kind \in {SpdIoctlTransactFlushKind, SpdIoctlTransactUnmapKind}
          => /\ pc' = "RunExit"
             /\ Error' # ERROR_SUCCESS
             /\ log' = log]_vars

(* a run of three operations on a raw unit has ended at its second, a Flush *)
C11_RawRunEndedAtFlush ==
    /\ pc = "done"
    /\ ~IsPipeName(args.PipeName)
    /\ OpCount = 3
    /\ Len(log) = 2
    /\ log[1].Kind = SpdIoctlTransactWriteKind
    /\ log[2].Kind = SpdIoctlTransactFlushKind
    /\ Error = ERROR_INVALID_PARAMETER
    /\ Rsp = NoRsp

(* the region that the request handed to StgTransact carries: in its Read, Write *)
(* or Flush fields, or in the unmap descriptor at the head of the data buffer    *)
C12_Carried ==
    IF Req.Kind = SpdIoctlTransactUnmapKind
    THEN DescriptorOf(BufRead(DataBuffer, 0, SizeofUnmapDescriptor))
    ELSE [BlockAddress |-> Req.BlockAddress, BlockCount |-> Req.BlockCount]

(* C12: operation I of a run has the kind OpKinds[I mod K], K the length of the *)
(* parsed kind list; the operations of one batch (K consecutive operations from *)
(* a multiple of K on) carry one BlockAddress and one block count.              *)
C12_KindCycleBatchFixed ==
    /\ \A k \in 1..Len(log) :
          /\ log[k].I = k - 1
          /\ OpKindCount = Len(OpKinds)
          /\ OpKinds = ParseOpSet(args.OpSet)
          /\ log[k].Kind = OpKinds[((k - 1) % OpKindCount) + 1]
          /\ k > 1 /\ (k - 1) % OpKindCount # 0 =>
                /\ log[k].BlockAddress = log[k - 1].BlockAddress
                /\ log[k].BlockCount = log[k - 1].BlockCount
    /\ pc = "StgTransact" =>
          /\ Req.Kind = log[Len(log)].Kind
          /\ C12_Carried.BlockAddress = log[Len(log)].BlockAddress
          /\ C12_Carried.BlockCount = log[Len(log)].BlockCount

(* Unmap, Read, Unmap: the Read carries the region of the first Unmap, and the *)
(* second Unmap, of the next batch, another address                            *)
C12_SecondBatchMoved ==
    /\ pc = "StgTransact"
    /\ Len(log) = 3
    /\ OpKindCount = 2
    /\ log[1].Kind = SpdIoctlTransactUnmapKind
    /\ log[2].Kind = SpdIoctlTransactReadKind
    /\ log[2].BlockAddress = log[1].BlockAddress
    /\ log[3].Kind = SpdIoctlTransactUnmapKind
    /\ log[3].BlockAddress # log[1].BlockAddress

(* the count of a batch when the caller gives it: clamped to the per-device *)
(* maximum, 0 promoted to 1                                                 *)
C13_ClampedCount ==
    LET c == IF args.BlockCount > MaxBlockCount THEN MaxBlockCount ELSE args.BlockCount
    IN  IF c = 0 THEN 1 ELSE c

(* C13: with a fixed address the first batch is at the caller-given address   *)
(* modulo Geometry.BlockCount, and every later batch at (address of the batch *)
(* before + count of the batch before) modulo Geometry.BlockCount, the count  *)
(* being the batch's count after the clamp to the per-device maximum.         *)
C13_FixedAddressAdvances ==
    Len(log) >= 1 /\ ~RandomAddress =>
        \A k \in 1..Len(log) :
            /\ ~RandomCount => log[k].BatchCount = C13_ClampedCount
            /\ (k - 1) % OpKindCount = 0 =>
                  log[k].BlockAddress =
                      IF k = 1
                      THEN args.BlockAddress % StorageUnitParams.BlockCount
                      ELSE (log[k - 1].BlockAddress + log[k - 1].BatchCount)
                               % StorageUnitParams.BlockCount

(* C14: on a unit whose Geometry satisfies the invariants, the count of every  *)
(* batch is at least 1 and at most MaxTransferLength / BlockLength, and so is  *)
(* the count of every request; nothing is stored past the MaxTransferLength    *)
(* bytes of the data buffer, the process does not die, and a request message   *)
(* fits the message buffer of sizeof(TRANSACT_MSG) + MaxTransferLength bytes.  *)
C14_CountsFitBuffers ==
    GeometryValid(StorageUnitParams) =>
        /\ \A k \in 1..Len(log) :
              /\ log[k].BatchCount >= 1
              /\ log[k].BatchCount
                     <= StorageUnitParams.MaxTransferLength \div StorageUnitParams.BlockLength
              /\ log[k].BlockCount >= 1
              /\ log[k].BlockCount * StorageUnitParams.BlockLength
                     <= StorageUnitParams.MaxTransferLength
        /\ pc # "crashed"
        /\ pc \notin {"done", "StgOpen"} /\ Len(log) > 0 =>
              /\ DataBufferSize = StorageUnitParams.MaxTransferLength
              /\ Len(DataBuffer) <= DataBufferSize
        /\ Msg.Bytes <= SizeofTransactMsg + StorageUnitParams.MaxTransferLength
        /\ Len(Msg.Payload) <= StorageUnitParams.MaxTransferLength

(* a caller-given count of 2 on a unit that transfers one block at most: the *)
(* Write is sent with one block, which fills the buffers to the last byte    *)
C14_ClampedWriteFillsBuffer ==
    /\ pc = "PipeWriteWait"
    /\ GeometryValid(StorageUnitParams)
    /\ args.BlockCount = 2
    /\ MaxBlockCount = 1
    /\ Req.Kind = SpdIoctlTransactWriteKind
    /\ Req.BlockCount = 1
    /\ Msg.Bytes = SizeofTransactMsg + StorageUnitParams.MaxTransferLength

(* C15: when StgTransactPipe accepts a response of kind Read with good status, *)
(* the first Read.BlockCount * BlockLength bytes of the caller's buffer are    *)
(* the payload received, cut to that length, followed by zeros where fewer     *)
(* bytes were received, and the bytes after that range are unchanged; on any   *)
(* other return of StgTransactPipe the caller's buffer is unchanged.           *)
C15_ReadDataCopied ==
    [][pc = "PipeReadWait" /\ pc' = "RunCheck" =>
          LET m == completion.Msg
              n == Req.BlockCount * StorageUnitParams.BlockLength
          IN  IF /\ Error' = ERROR_SUCCESS
                 /\ m.Hdr.Kind = SpdIoctlTransactReadKind
                 /\ m.Hdr.ScsiStatus = SCSISTAT_GOOD
              THEN /\ \A k \in 0..(n - 1) :
                         BufGet(DataBuffer', k) =
                             IF k < Len(m.Payload) THEN m.Payload[k + 1] ELSE 0
                   /\ \A k \in n..(DataBufferSize - 1) :
                         BufGet(DataBuffer', k) = BufGet(DataBuffer, k)
              ELSE DataBuffer' = DataBuffer]_vars

(* a Read of two blocks was answered with half of the bytes: the first half of *)
(* the range is the payload, the second half zeros                             *)
C15_ShortReadZeroPadded ==
    /\ pc = "RunCheck"
    /\ Error = ERROR_SUCCESS
    /\ Req.Kind = SpdIoctlTransactReadKind
    /\ Req.BlockCount = 2
    /\ Rsp = hist.Received.Hdr
    /\ Rsp.Hint = Req.Hint
    /\ Rsp.Kind = SpdIoctlTransactReadKind
    /\ Rsp.ScsiStatus = SCSISTAT_GOOD
    /\ Len(hist.Received.Payload) = StorageUnitParams.BlockLength
    /\ BufGet(DataBuffer, 0) = hist.Received.Payload[1]
    /\ BufGet(DataBuffer, 0) # 0
    /\ \A k \in StorageUnitParams.BlockLength..(2 * StorageUnitParams.BlockLength - 1) :
           BufGet(DataBuffer, k) = 0

(* the kind of the last Write or Unmap among the requests of the current batch, *)
(* SpdIoctlTransactReservedKind when there is none                             *)
C16_Mode ==
    LET n == Len(log)
        ks == {k \in 1..n : /\ C8_Batch(k) = C8_Batch(n)
                            /\ log[k].Kind \in {SpdIoctlTransactWriteKind,
                                                 SpdIoctlTransactUnmapKind}}
    IN  IF ks = {} THEN SpdIoctlTransactReservedKind
        ELSE log[CHOOSE k \in ks : \A j \in ks : j <= k].Kind

(* every 8-byte word of every block of the range in the data buffer is what the *)
(* mode asks for: mix(BlockAddress + i + 1) in block i after a Write, 0 after   *)
(* an Unmap                                                                     *)
C16_WordsAsExpected ==
    \A i \in 0..(OpBlockCount - 1) :
        \A j \in 0..((StorageUnitParams.BlockLength \div 8) - 1) :
            BufRead(DataBuffer, i * StorageUnitParams.BlockLength + 8 * j, 8) =
                IF TestOpKind = SpdIoctlTransactWriteKind
                THEN ToBytesLE(HashMix64((BlockAddress + i + 1) % UINT64_MOD), 8)
                ELSE Zeros(8)

(* C16: between the issue of a request and its validation the mode of the      *)
(* oracle is that of the most recent Write or Unmap of the same batch, none    *)
(* when the batch has had neither (so a mode never passes to the next batch);  *)
(* and a Read put to the oracle is accepted exactly when every word of its     *)
(* range is mix(BlockAddress + i + 1) after a Write, and 0 after an Unmap.     *)
C16_OracleMode ==
    [][/\ pc' \in {"StgTransact", "PipeWriteWait", "PipeReadWait", "RawWait", "RunCheck"}
           => TestOpKind' = C16_Mode'
       /\ C8_OracleApplied => (pc' = "Loop" <=> C16_WordsAsExpected)]_vars

(* a Read of two blocks after an Unmap is put to the oracle with its range zero *)
C16_ZeroReadAfterUnmap ==
    /\ C8_OracleApplied
    /\ TestOpKind = SpdIoctlTransactUnmapKind
    /\ OpBlockCount = 2
    /\ C16_WordsAsExpected

(* C17: StgClose is called at most once, and has been called exactly once when *)
(* run returns if and only if StgOpen succeeded; nothing is done after it (a   *)
(* process that an exception ends does not return from run).                   *)
(* When StgOpen fails, it has closed the handle it had opened, the handle of   *)
(* run is invalid, and run does not call StgClose.                             *)
C17_ClosedOnce ==
    [][/\ hist.Closes = 0
       /\ hist'.Closes <= 1
       /\ hist'.Closes = 1 => pc' = "done" /\ Opened' /\ pending' = {}
       /\ pc' = "RunAfterOpen" => (Error' = ERROR_SUCCESS <=> Opened')
       /\ pc' = "RunAfterOpen" /\ Error' # ERROR_SUCCESS => osOpen' = {}
       /\ Opened' => osOpen' = {hFile'} \/ pc' = "done"
       /\ pc' = "done" => (hist'.Closes = 1 <=> Opened')
       /\ pc' = "done" /\ ~hist'.CloseFailed => osOpen' = {}]_vars

(* a raw unit reported a block length of 0: StgOpenRaw closed the volume and *)
(* failed, and run has returned without a call of StgClose                   *)
C17_FailedOpenNoClose ==
    /\ pc = "done"
    /\ ~IsPipeName(args.PipeName)
    /\ StorageUnitParams.BlockLength = 0
    /\ hist.Connects = 1
    /\ hist.Closes = 0
    /\ Error = ERROR_IO_DEVICE
    /\ ~Opened
    /\ osOpen = {}

(* C18: StgOpenPipe calls CreateFileW at most twice; the second call is made  *)
(* only when the first failed with ERROR_PIPE_BUSY, and after one wait on the *)
(* pipe with the caller's timeout; a first failure with another error, or a   *)
(* failure of the second call, is what StgOpenPipe returns.                   *)
C18_ConnectTwiceAtMost ==
    IsPipeName(args.PipeName) =>
        /\ hist.Connects <= 2
        /\ Len(hist.ConnectErrors) <= hist.Connects
        /\ hist.Waits \in {<< >>, <<OpenTimeout>>}
        /\ hist.Connects = 2 <=> hist.Waits = <<OpenTimeout>>
        /\ hist.Connects = 2 => hist.ConnectErrors[1] = ERROR_PIPE_BUSY
        /\ \/ Len(hist.ConnectErrors) = 2
           \/ Len(hist.ConnectErrors) = 1 /\ hist.ConnectErrors[1] # ERROR_PIPE_BUSY
           => /\ pc \in {"RunAfterOpen", "RunExit", "done"}
              /\ Error = hist.ConnectErrors[Len(hist.ConnectErrors)]
              /\ ~Opened
              /\ hist.HandshakeReads = 0

(* the pipe was busy at both attempts: StgOpenPipe has returned ERROR_PIPE_BUSY *)
C18_BusyTwice ==
    /\ pc = "RunAfterOpen"
    /\ hist.Connects = 2
    /\ hist.ConnectErrors = <<ERROR_PIPE_BUSY, ERROR_PIPE_BUSY>>
    /\ hist.Waits = <<OpenTimeout>>
    /\ Error = ERROR_PIPE_BUSY

(* the letters of a kind string that the parse examines, and those it knows *)
C19_Examined(OpSet) ==
    SubSeq(OpSet, 1, IF Len(OpSet) < OpKindsSize THEN Len(OpSet) ELSE OpKindsSize)

C19_Known(c) == c \in {"R", "r", "W", "w", "F", "f", "U", "u"}

C19_KindOf(c) ==
    CASE c \in {"R", "r"} -> SpdIoctlTransactReadKind
      [] c \in {"W", "w"} -> SpdIoctlTransactWriteKind
      [] c \in {"F", "f"} -> SpdIoctlTransactFlushKind
      [] c \in {"U", "u"} -> SpdIoctlTransactUnmapKind

(* C19: once the kind string is parsed the kind list has from 1 to 32 entries: *)
(* the kinds of the letters R, W, F, U (either case) among the first 32        *)
(* characters, in their order, or Write, Read when there is none; the index    *)
(* I mod K of every operation issued lies inside the list.                     *)
C19_KindListBounded ==
    /\ pc \in {"Loop", "StgTransact", "PipeWriteWait", "PipeReadWait", "RawWait", "RunCheck"}
       \/ OpKindCount # 0
       => LET known == SelectSeq(C19_Examined(args.OpSet), C19_Known)
          IN  /\ OpKindCount \in 1..OpKindsSize
              /\ Len(OpKinds) = OpKindCount
              /\ known # << >> =>
                    /\ OpKindCount = Len(known)
                    /\ \A k \in 1..Len(known) : OpKinds[k] = C19_KindOf(known[k])
              /\ known = << >> =>
                    OpKinds = <<SpdIoctlTransactWriteKind, SpdIoctlTransactReadKind>>
    /\ \A k \in 1..Len(log) :
          /\ OpKindCount # 0
          /\ (log[k].I % OpKindCount) + 1 \in 1..OpKindsSize
          /\ (log[k].I % OpKindCount) + 1 \in DOMAIN OpKinds

(* a kind string of 33 letters gave a list of 32 kinds, and an operation is issued *)
C19_LongStringCut ==
    /\ Len(args.OpSet) > OpKindsSize
    /\ \A k \in 1..Len(args.OpSet) : C19_Known(args.OpSet[k])
    /\ OpKindCount = OpKindsSize
    /\ pc = "StgTransact"
    /\ Len(log) = 2

(* the bytes of DataBuffer, from its start, that the last transact wrote as the *)
(* data of a Read: on the pipe the range of the Read (payload, then zeros), on  *)
(* the raw device the bytes that ReadFile transferred                           *)
C20_BytesPutByRead ==
    IF IsPipeHandle(Handle)
    THEN IF PipeRspHasData(hist.Received.Hdr)
         THEN MulMod(Req.BlockCount, StorageUnitParams.BlockLength, UINT32_MOD)
         ELSE 0
    ELSE hist.Received.Bytes

(* the data of a Read are about to pass the test after a Write *)
C20_PassesAfterWrite ==
    /\ pc = "RunCheck"
    /\ Error = ERROR_SUCCESS
    /\ Req.Kind = SpdIoctlTransactReadKind
    /\ ~CheckConditionFails(Req, Rsp)
    /\ TestOpKind = SpdIoctlTransactWriteKind
    /\ ~OracleFails(Rsp, DataBuffer, StorageUnitParams.BlockLength,
                    BlockAddress, OpBlockCount, TestOpKind)

(* C20: when the data of a Read pass the test after a Write, on the pipe or on *)
(* the raw device, every byte of the range tested (OpBlockCount * BlockLength  *)
(* bytes of DataBuffer) was written by that Read, as payload or as zero fill;  *)
(* none is left from the stamp of the Write.                                   *)
C20_VerifiedBytesFromRead ==
    C20_PassesAfterWrite =>
        C20_BytesPutByRead >= OpBlockCount * StorageUnitParams.BlockLength

(* C20 on the pipe alone *)
C20_PipeVerifiedBytesFromRead ==
    C20_PassesAfterWrite /\ IsPipeHandle(Handle) =>
        C20_BytesPutByRead >= OpBlockCount * StorageUnitParams.BlockLength

(* run has returned 0 after max(OpCount, 1) transacts and one close; the kinds *)
(* went round the kind list, and J is where the last batch stopped            *)
C21_Ended ==
    LET n == IF args.OpCount = 0 THEN 1 ELSE args.OpCount
    IN  /\ pc = "done"
        /\ Error = ERROR_SUCCESS
        /\ Len(log) = n
        /\ I = n
        /\ \A k \in 1..n :
              /\ log[k].I = k - 1
              /\ log[k].Kind = OpKinds[((k - 1) % OpKindCount) + 1]
        /\ J = n % OpKindCount
        /\ hist.Closes = 1
        /\ ~hist.CloseFailed
        /\ osOpen = {}
        /\ pending = {}

(* C21: against a service that answers every request, with no call failing,   *)
(* run comes to its end: it has issued max(OpCount, 1) transacts and no more,  *)
(* the last batch stopping short when that number is no multiple of the length *)
(* of the kind list, has closed the transport, and has returned 0.             *)
C21_RunTerminates == <>[]C21_Ended

(* four operations over a list of three kinds: the second batch had one *)
C21_LastBatchCut ==
    /\ C21_Ended
    /\ args.OpCount = MaxFaithfulOps
    /\ OpKindCount = 3
    /\ J # 0
    /\ log[Len(log)].I % OpKindCount = 0

(* C22: the Hints of the requests of a run differ from one another: request I *)
(* carries the thread id above the bits of I, and I in those bits; and a      *)
(* response with the Hint of an earlier request of the run, received for the  *)
(* request that is waited for, is refused: StgTransactPipe returns            *)
(* ERROR_IO_DEVICE and the caller's response is left as it was.               *)
C22_HintsDistinct ==
    [][/\ \A k \in 1..Len(log') :
              /\ log'[k].Hint \div (2 ^ HintShift) = ThreadId'
              /\ log'[k].Hint % (2 ^ HintShift) = log'[k].I
              /\ \A j \in 1..(k - 1) : log'[j].Hint # log'[k].Hint
       /\ pc' = "StgTransact" => Req'.Hint = log'[Len(log')].Hint
       /\ /\ pc = "PipeReadWait" /\ pc' = "RunCheck"
          /\ completion.Error = ERROR_SUCCESS
          /\ \E j \in 1..(Len(log) - 1) : completion.Msg.Hdr.Hint = log[j].Hint
          => Error' = ERROR_IO_DEVICE /\ Rsp' = Rsp /\ DataBuffer' = DataBuffer]_vars

(* the response to the first request came as the answer to the second, whole *)
(* and with good status, and StgTransactPipe has refused it                  *)
C22_StaleResponseRefused ==
    /\ pc = "RunCheck"
    /\ Len(log) = 2
    /\ ThreadId # 0
    /\ Req.Hint = log[2].Hint
    /\ hist.Received.Bytes >= SizeofTransactMsg
    /\ hist.Received.Hdr.Hint = log[1].Hint
    /\ hist.Received.Hdr.ScsiStatus = SCSISTAT_GOOD
    /\ Error = ERROR_IO_DEVICE
    /\ Rsp = NoRsp

(* the number that 8 big-endian bytes stand for, in the width of a UINT64 *)
C23_BigEndian(b) == FromBytesLE([k \in 1..Len(b) |-> b[Len(b) + 1 - k]], UINT64_MOD)

(* C23: when the raw transport is open, Geometry.BlockCount is the last block *)
(* address that READ CAPACITY(16) reported, plus one, whether that address is *)
(* odd or even.                                                               *)
C23_RawBlockCountIsLastPlusOne ==
    Opened /\ ~IsPipeHandle(Handle) =>
        StorageUnitParams.BlockCount = C23_BigEndian(unit.Reply.LogicalBlockAddress) + 1

(* C23 for the even addresses alone *)
C23_EvenLastAddressPlusOne ==
    /\ Opened /\ ~IsPipeHandle(Handle)
    /\ C23_BigEndian(unit.Reply.LogicalBlockAddress) % 2 = 0
    => StorageUnitParams.BlockCount = C23_BigEndian(unit.Reply.LogicalBlockAddress) + 1

(* a raw unit that reported the last block address 5 is open with 5 blocks *)
C23_OddLastAddressOpen ==
    /\ Opened /\ ~IsPipeHandle(Handle)
    /\ unit.Reply.LogicalBlockAddress = <<0, 0, 0, 0, 0, 0, 0, 5>>
    /\ StorageUnitParams.BlockCount = 5

====
